---- MODULE Spec2Model ----
(***************************************************************************)
(* Process lifecycle of the ai-bgm background player: the `play`, `stop`   *)
(* and `toggle` commands (src/aibgm/commands), the detached worker they    *)
(* spawn, the PID file, the lock file and the host's process table.        *)
(***************************************************************************)
EXTENDS Integers, Sequences, FiniteSets, TLC

\* Number of command invocations in one behaviour of Spec; each spawns at
\* most one worker, whose pid is the invocation's index.
MaxOps == 2
\* Further invocations in a behaviour of SpecWide.
ExtraOps == 1
\* Number of existence polls of a termination wait loop before it escalates
\* (stands for the 20 polls of 0.1 s in process.py:100 and stop.py:48,94).
MaxPolls == 1
\* Number of __enter__/__exit__ calls made on one FileLock object.
MaxCalls == 3
\* Lines a running worker appends to the log between two observations, and
\* the number of lines up to which the log is followed.
LogBatch == 400
LogCap == 1600
\* LogManager.get_log_manager(max_lines=1000, keep_lines=500).
max_lines == 1000
keep_lines == 500
\* Largest max_lines a LogManager is constructed with where rotation is
\* followed line by line, and the number of lines the workers print there.
MaxLimit == 2
MaxPrinted == 4
\* Number of workers that set up their logging, one after the other.
MaxWorkers == 2
\* Number of command invocations in a behaviour of SpecCfg, and the largest
\* LOOP argument given there.
CfgOps == 2
MaxRepeat == 2

Ops == 1..(MaxOps + ExtraOps)
Pids == Ops

\* ---------------------------------------------------------------- pgrep -f
\* Command lines are sequences of characters, so that the substring match of
\* `pgrep -f` is computed and not assumed.
SpawnArgs ==
    <<"b","g","m"," ","p","l","a","y"," ","-","-","d","a","e","m","o","n">>
\* Variant: the pattern names the command as it is spawned.
PgrepPatternAsSpawned == SpawnArgs
PgrepPattern ==
    <<"a","i","-","b","g","m"," ","p","l","a","y"," ","-","-","d","a","e","m","o","n">>
\* The executable is found on PATH, so the command name is preceded by a
\* path separator in the process table.
Cmdline(w) == <<"/">> \o SpawnArgs
IsSubstr(p, s) ==
    \E i \in 0..(Len(s) - Len(p)) : SubSeq(s, i + 1, i + Len(p)) = p

VARIABLES
    nops,       \* number of invocations the environment makes
    platform,   \* "unix" | "windows" (platform_utils.is_windows)
    pgrepOK,    \* whether the pgrep executable can be run
    pc,         \* position of each command invocation
    kind,       \* "play" | "stop" | "toggle"
    tgt,        \* old_pid read by the invocation (0: none / pgrep mode)
    killed,     \* killed / killed_any
    polls,      \* iterations of the current wait loop
    out,        \* what the invocation reported
    sent,       \* pids the invocation has signalled
    entryPid,   \* stop: pid named by the PID file at lock acquisition
    entryLive,  \* stop: whether that process was alive then
    seqd,       \* the invocation began after all earlier ones had returned
    during,     \* stop: save_pid activity of workers since the lock was
                \* taken (0 none, 1 an open, 2 a completed write)
    lock,       \* holder of the flock on the lock file, 0 if free
    wpc,        \* position of each worker process
    wsig,       \* a termination signal is pending for the worker
    wtry,       \* the handler interrupted the try block of play_music
    wfd,        \* inode the worker's save_pid has open
    wrep,       \* the worker's repeat count
    wexit,      \* exit status of the worker
    pidFile,    \* <<inode, value>>; <<0, 0>> absent; value 0 unparseable
    kpc,        \* position of a kill_process call
    kproc,      \* its target: "alive" | "dead" | "norange" (no pid_t value)
    kperm,      \* signalling the target is not permitted
    kgrace,     \* the graceful argument
    kbreak,     \* hasattr(signal, "CTRL_BREAK_EVENT")
    kpolls,     \* iterations of the wait loop
    ksigs,      \* signals the call has delivered
    kret,       \* "none" | "true" | "false" | "raised"
    exOut,      \* outcome of the os.kill(pid, 0) of a check_process_exists call
    exRet,      \* what that call returned
    flFd,       \* FileLock.lock_fd (0: None)
    flHeld,     \* the flock is held through that descriptor
    flSys,      \* number of flock(LOCK_UN)/close pairs executed
    flErr,      \* a call on the FileLock raised
    flCalls,    \* the calls made on the FileLock, in order
    logOn,      \* a worker has its output redirected to the log
    logLines,   \* number of lines in the log file
    lm_max_lines,  \* LogManager.max_lines of the worker setting up its log
    lm_keep_lines, \* LogManager.keep_lines
    rpc,        \* position of that worker in setup_daemon_logging
    lfCond,     \* condition of the log path met by that worker
    lfExists,   \* the log file exists
    lfLines,    \* its lines
    lfNext,     \* number of the next line a worker prints
    lfOrig,     \* the log file and the temp file when rotate_if_needed began
    tmpExists,  \* the temp file bgm_player.log.tmp exists
    tmpLines,   \* its lines
    rwarn,      \* rotate_if_needed printed its warning
    rworkers,   \* number of workers that have set up their logging
    rcalls,     \* rotate_if_needed calls made on the worker's LogManager
    wfound,     \* what the worker's start-up checks found
    wlog,       \* the error the worker wrote to its log
    wloops,     \* <<loops>> passed to pygame.mixer.music.play, <<>> before
    wplayed     \* number of times the mixer has played the track to its end

opVars == <<pc, kind, tgt, killed, polls, out, sent, entryPid, entryLive>>
wVars == <<wpc, wsig, wtry, wfd, wrep, wexit>>
envVars == <<nops, platform, pgrepOK>>
histVars == <<seqd, during>>
\* State of the functions exercised on their own (kill_process,
\* check_process_exists, FileLock, the log file), and of the start-up and
\* playback of a worker where they are followed check by check.
unitVars == <<kpc, kproc, kperm, kgrace, kbreak, kpolls, ksigs, kret, exOut,
              exRet, flFd, flHeld, flSys, flErr, flCalls, logOn, logLines,
              lm_max_lines, lm_keep_lines, rpc, lfCond, lfExists, lfLines,
              lfNext, lfOrig, tmpExists, tmpLines, rwarn, rworkers, rcalls,
              wfound, wlog, wloops, wplayed>>
vars == <<nops, platform, pgrepOK, pc, kind, tgt, killed, polls, out, sent,
          entryPid, entryLive, seqd, during, lock, wpc, wsig, wtry, wfd, wrep,
          wexit, pidFile, kpc, kproc, kperm, kgrace, kbreak, kpolls, ksigs,
          kret, exOut, exRet, flFd, flHeld, flSys, flErr, flCalls, logOn,
          logLines, lm_max_lines, lm_keep_lines, rpc, lfCond, lfExists,
          lfLines, lfNext, lfOrig, tmpExists, tmpLines, rwarn,
             rworkers, rcalls, wfound, wlog, wloops, wplayed>>

NoFile == <<0, 0>>
FileExists == pidFile[1] # 0
FileVal == pidFile[2]

Alive(w) == w \in Pids /\ wpc[w] \notin {"unborn", "dead"}
\* Positions before setup_signal_handlers has run: SIGTERM has its default
\* disposition there.
NoHandler == {"boot", "start", "saving", "registered"}
HandlerPcs == {"h_read", "h_clean"}

PgrepMatch == {w \in Pids : Alive(w) /\ IsSubstr(PgrepPattern, Cmdline(w))}

\* No call in progress, a fresh FileLock, an empty log.
UnitIdle ==
    /\ kpc = "idle"
    /\ kproc = "dead"
    /\ kperm = FALSE
    /\ kgrace = FALSE
    /\ kbreak = FALSE
    /\ kpolls = 0
    /\ ksigs = {}
    /\ kret = "none"
    /\ exOut = "none"
    /\ exRet = "none"
    /\ flFd = 0
    /\ flHeld = FALSE
    /\ flSys = 0
    /\ flErr = FALSE
    /\ flCalls = <<>>
    /\ logOn = FALSE
    /\ logLines = 0
    /\ lm_max_lines = 0
    /\ lm_keep_lines = 0
    /\ rpc = "idle"
    /\ lfCond = "ok"
    /\ lfExists = FALSE
    /\ lfLines = <<>>
    /\ lfNext = 1
    /\ lfOrig = <<FALSE, <<>>, FALSE, <<>> >>
    /\ tmpExists = FALSE
    /\ tmpLines = <<>>
    /\ rwarn = FALSE
    /\ rworkers = 0
    /\ rcalls = 0
    /\ wfound = [w \in Pids |-> ""]
    /\ wlog = [w \in Pids |-> ""]
    /\ wloops = [w \in Pids |-> <<>>]
    /\ wplayed = [w \in Pids |-> 0]

Start ==
    /\ platform \in {"unix", "windows"}
    /\ pgrepOK \in BOOLEAN
    /\ (platform = "windows" => pgrepOK = FALSE)
    /\ pc = [o \in Ops |-> "idle"]
    /\ kind = [o \in Ops |-> "play"]
    /\ tgt = [o \in Ops |-> 0]
    /\ killed = [o \in Ops |-> FALSE]
    /\ polls = [o \in Ops |-> 0]
    /\ out = [o \in Ops |-> ""]
    /\ sent = [o \in Ops |-> {}]
    /\ entryPid = [o \in Ops |-> 0]
    /\ entryLive = [o \in Ops |-> FALSE]
    /\ seqd = [o \in Ops |-> FALSE]
    /\ during = [o \in Ops |-> 0]
    /\ lock = 0
    /\ wpc = [w \in Pids |-> "unborn"]
    /\ wsig = [w \in Pids |-> FALSE]
    /\ wtry = [w \in Pids |-> FALSE]
    /\ wfd = [w \in Pids |-> 0]
    /\ wrep = [w \in Pids |-> 0]
    /\ wexit = [w \in Pids |-> ""]
    /\ pidFile = NoFile
    /\ UnitIdle

Init == nops = MaxOps /\ Start
\* One more invocation, on a Unix host without the pgrep executable.
InitWide ==
    /\ nops = MaxOps + ExtraOps
    /\ Start
    /\ platform = "unix"
    /\ ~pgrepOK

\* ------------------------------------------------------------ the processes
\* os.kill(pid, SIGKILL), and SIGTERM where no handler runs: the processes
\* of S die at once.
Gone(S) == {w \in S : Alive(w)}
Die(S) ==
    /\ wpc' = [w \in Pids |-> IF w \in Gone(S) THEN "dead" ELSE wpc[w]]
    /\ wexit' = [w \in Pids |-> IF w \in Gone(S) THEN "killed" ELSE wexit[w]]
    /\ wsig' = [w \in Pids |-> IF w \in Gone(S) THEN FALSE ELSE wsig[w]]
    /\ wtry' = [w \in Pids |-> IF w \in Gone(S) THEN FALSE ELSE wtry[w]]
    /\ wfd' = [w \in Pids |-> IF w \in Gone(S) THEN 0 ELSE wfd[w]]
    /\ wrep' = [w \in Pids |-> IF w \in Gone(S) THEN 0 ELSE wrep[w]]

\* os.kill(pid, SIGTERM) for the live processes of S. On Windows os.kill
\* with SIGTERM terminates the process; on Unix a worker without handler
\* dies, and one with the handler of setup_signal_handlers runs it when it
\* is next scheduled (a signal that arrives inside the handler changes
\* nothing: the handler ends in sys.exit(0) either way).
DiesOnTerm(w) == platform = "windows" \/ wpc[w] \in NoHandler
Term(S) ==
    LET D == {w \in Gone(S) : DiesOnTerm(w)}
        H == {w \in Gone(S) : ~DiesOnTerm(w) /\ wpc[w] \notin HandlerPcs}
    IN  /\ wpc' = [w \in Pids |-> IF w \in D THEN "dead" ELSE wpc[w]]
        /\ wexit' = [w \in Pids |-> IF w \in D THEN "killed" ELSE wexit[w]]
        /\ wsig' = [w \in Pids |-> IF w \in H THEN TRUE ELSE wsig[w]]
        /\ wfd' = [w \in Pids |-> IF w \in D THEN 0 ELSE wfd[w]]
        /\ wrep' = [w \in Pids |-> IF w \in D THEN 0 ELSE wrep[w]]
        /\ UNCHANGED wtry

\* --------------------------------------------------------------- invocation
\* A command is invoked. stop.py imports fcntl at module level and toggle.py
\* imports stop.py, so neither command loads on Windows.
Invoke(o) ==
    /\ pc[o] = "idle"
    /\ o <= nops
    /\ \A j \in Ops : j < o => pc[j] # "idle"
    /\ \E k \in {"play", "stop", "toggle"} :
         /\ platform = "windows" => k = "play"
         /\ kind' = [kind EXCEPT ![o] = k]
         /\ pc' = [pc EXCEPT ![o] = CASE k = "play" -> "s_lock"
                                      [] k = "stop" -> "p_lock"
                                      [] OTHER -> "t_read"]
    /\ seqd' = [seqd EXCEPT ![o] = \A j \in Ops : j < o => pc[j] = "done"]
    /\ UNCHANGED <<tgt, killed, polls, out, sent, entryPid, entryLive, lock,
                   pidFile, during>>
    /\ UNCHANGED wVars
    /\ UNCHANGED envVars
    /\ UNCHANGED unitVars

\* The locals of an invocation end with its process.
Forget(o) ==
    /\ tgt' = [tgt EXCEPT ![o] = 0]
    /\ killed' = [killed EXCEPT ![o] = FALSE]
    /\ polls' = [polls EXCEPT ![o] = 0]
    /\ sent' = [sent EXCEPT ![o] = {}]

\* FileLock.__enter__: flock(LOCK_EX) on Unix, nothing on Windows.
FileLockEnter(o) ==
    IF platform = "unix" THEN lock = 0 /\ lock' = o ELSE lock' = lock
\* Variant: __exit__ leaves the lock held.
FileLockExitLeak(o) == lock' = lock
\* FileLock.__exit__.
FileLockExit(o) ==
    IF platform = "unix" /\ lock = o THEN lock' = 0 ELSE lock' = lock

\* ---------------------------------------------- start_background_player
StartAcquire(o) ==
    /\ pc[o] = "s_lock"
    /\ FileLockEnter(o)
    /\ pc' = [pc EXCEPT ![o] = "s_read"]
    /\ UNCHANGED <<kind, tgt, killed, polls, out, sent, entryPid,
                   entryLive, pidFile>>
    /\ UNCHANGED wVars
    /\ UNCHANGED envVars
    /\ UNCHANGED unitVars
    /\ UNCHANGED histVars

\* Variant: the text of the PID file is used without the ValueError guard.
StartReadPidUnguarded(o) ==
    /\ pc[o] = "s_read"
    /\ IF ~FileExists
       THEN /\ pc' = [pc EXCEPT ![o] = "s_spawn"]
            /\ killed' = [killed EXCEPT ![o] = FALSE]
            /\ tgt' = tgt
       ELSE /\ pc' = [pc EXCEPT ![o] = "s_term"]
            /\ tgt' = [tgt EXCEPT ![o] = FileVal]
            /\ killed' = killed
    /\ UNCHANGED <<kind, polls, out, sent, entryPid, entryLive, lock,
                   pidFile>>
    /\ UNCHANGED wVars
    /\ UNCHANGED envVars
    /\ UNCHANGED unitVars
    /\ UNCHANGED histVars
\* kill_existing_process, lines 40-45: no file, or int() fails, returns False.
StartReadPid(o) ==
    /\ pc[o] = "s_read"
    /\ IF ~FileExists \/ FileVal = 0
       THEN /\ pc' = [pc EXCEPT ![o] = "s_spawn"]
            /\ killed' = [killed EXCEPT ![o] = FALSE]
            /\ tgt' = tgt
       ELSE /\ pc' = [pc EXCEPT ![o] = "s_term"]
            /\ tgt' = [tgt EXCEPT ![o] = FileVal]
            /\ killed' = killed
    /\ UNCHANGED <<kind, polls, out, sent, entryPid, entryLive, lock,
                   pidFile>>
    /\ UNCHANGED wVars
    /\ UNCHANGED envVars
    /\ UNCHANGED unitVars
    /\ UNCHANGED histVars

\* check_process_exists (play.py:48, process.py:55) and the SIGTERM of
\* _kill_unix/_kill_windows: a process found dead at any of them leads to
\* "remove the file if it exists, return False".
StartTerminate(o) ==
    /\ pc[o] = "s_term"
    /\ IF Alive(tgt[o])
       THEN /\ Term({tgt[o]})
            /\ sent' = [sent EXCEPT ![o] = @ \cup {tgt[o]}]
            /\ polls' = [polls EXCEPT ![o] = 0]
            /\ pc' = [pc EXCEPT ![o] = "s_wait"]
            /\ killed' = killed
       ELSE /\ killed' = [killed EXCEPT ![o] = FALSE]
            /\ pc' = [pc EXCEPT ![o] = "s_unlink"]
            /\ UNCHANGED <<sent, polls>>
            /\ UNCHANGED wVars
    /\ UNCHANGED <<kind, tgt, out, entryPid, entryLive, lock, pidFile>>
    /\ UNCHANGED envVars
    /\ UNCHANGED unitVars
    /\ UNCHANGED histVars

\* One iteration of the graceful wait loop of _kill_unix/_kill_windows.
StartWaitPoll(o) ==
    /\ pc[o] = "s_wait"
    /\ IF ~Alive(tgt[o])
       THEN /\ killed' = [killed EXCEPT ![o] = TRUE]
            /\ pc' = [pc EXCEPT ![o] = "s_unlink"]
            /\ polls' = polls
       ELSE /\ polls' = [polls EXCEPT ![o] = @ + 1]
            /\ pc' = [pc EXCEPT ![o] =
                        IF polls[o] + 1 >= MaxPolls THEN "s_force" ELSE "s_wait"]
            /\ killed' = killed
    /\ UNCHANGED <<kind, tgt, out, sent, entryPid, entryLive, lock,
                   pidFile>>
    /\ UNCHANGED wVars
    /\ UNCHANGED envVars
    /\ UNCHANGED unitVars
    /\ UNCHANGED histVars

\* After the timeout: SIGKILL on Unix, CTRL_BREAK_EVENT on Windows; the
\* result is the negation of the final existence check.
StartForceKill(o) ==
    /\ pc[o] = "s_force"
    /\ IF platform = "unix" THEN Die({tgt[o]}) ELSE UNCHANGED wVars
    /\ sent' = [sent EXCEPT ![o] = @ \cup {tgt[o]}]
    /\ killed' = [killed EXCEPT ![o] = (platform = "unix") \/ ~Alive(tgt[o])]
    /\ pc' = [pc EXCEPT ![o] = "s_unlink"]
    /\ UNCHANGED <<kind, tgt, polls, out, entryPid, entryLive, lock,
                   pidFile>>
    /\ UNCHANGED envVars
    /\ UNCHANGED unitVars
    /\ UNCHANGED histVars

\* kill_existing_process, lines 50 and 57-58.
StartUnlink(o) ==
    /\ pc[o] = "s_unlink"
    /\ pidFile' = NoFile
    /\ pc' = [pc EXCEPT ![o] = "s_spawn"]
    /\ UNCHANGED <<kind, tgt, killed, polls, out, sent, entryPid,
                   entryLive, lock>>
    /\ UNCHANGED wVars
    /\ UNCHANGED envVars
    /\ UNCHANGED unitVars
    /\ UNCHANGED histVars

\* subprocess.Popen(["bgm", "play", "--daemon", music_type, str(loop)]).
\* The LOOP argument of the invocation (0 = infinite) is not used before
\* this point, so it is drawn here; toggle passes 0.
StartSpawn(o) ==
    /\ pc[o] = "s_spawn"
    /\ wpc' = [wpc EXCEPT ![o] = "boot"]
    /\ \E n \in {0, 1} :
         /\ kind[o] = "toggle" => n = 0
         /\ wrep' = [wrep EXCEPT ![o] = n]
    /\ out' = [out EXCEPT ![o] = "started"]
    /\ pc' = [pc EXCEPT ![o] = "s_report"]
    /\ UNCHANGED <<kind, tgt, killed, polls, sent, entryPid, entryLive,
                   lock, pidFile, wsig, wtry, wfd, wexit>>
    /\ UNCHANGED envVars
    /\ UNCHANGED unitVars
    /\ UNCHANGED histVars

\* The 0.5 s sleep, the read of the PID file for display, and the release of
\* the lock at the end of the with block.
StartFinish(o) ==
    /\ pc[o] = "s_report"
    /\ FileLockExit(o)
    /\ pc' = [pc EXCEPT ![o] = "done"]
    /\ Forget(o)
    /\ UNCHANGED <<kind, out, entryPid, entryLive, pidFile>>
    /\ UNCHANGED wVars
    /\ UNCHANGED envVars
    /\ UNCHANGED unitVars
    /\ UNCHANGED histVars

\* ------------------------------------------------------------------- stop
\* stop(): os.open of the lock file and fcntl.flock(LOCK_EX); the state of
\* the PID file at that moment is recorded for the properties.
StopAcquire(o) ==
    /\ pc[o] = "p_lock"
    /\ lock = 0
    /\ lock' = o
    /\ entryPid' = [entryPid EXCEPT ![o] = IF FileExists THEN FileVal ELSE 0]
    /\ entryLive' = [entryLive EXCEPT ![o] = FileExists /\ Alive(FileVal)]
    /\ pc' = [pc EXCEPT ![o] = "k_pgrep"]
    /\ UNCHANGED <<kind, tgt, killed, polls, out, sent, pidFile>>
    /\ UNCHANGED wVars
    /\ UNCHANGED envVars
    /\ UNCHANGED unitVars
    /\ UNCHANGED histVars

\* return of kill_existing_player to its caller: stop() echoes the result
\* and goes on to release the lock, toggle() echoes it and ends.
KepReturn(o, k) ==
    /\ pc' = [pc EXCEPT ![o] = IF kind[o] = "stop" THEN "p_report" ELSE "t_report"]
    /\ out' = [out EXCEPT ![o] = IF k THEN "stopped" ELSE "none"]

\* Whether the wait loop of kill_existing_player still sees its target:
\* pgrep again in the pgrep branch, os.kill(old_pid, 0) in the fallback.
KepRunning(o) == IF tgt[o] = 0 THEN PgrepMatch # {} ELSE Alive(tgt[o])

\* kill_existing_player, lines 30-45: pgrep -f and SIGTERM to every match;
\* FileNotFoundError (no pgrep executable) selects the PID-file fallback.
KepPgrep(o) ==
    /\ pc[o] = "k_pgrep"
    /\ tgt' = [tgt EXCEPT ![o] = 0]
    /\ IF ~pgrepOK
       THEN /\ pc' = [pc EXCEPT ![o] = "k_read"]
            /\ UNCHANGED <<killed, polls, sent>>
            /\ UNCHANGED wVars
       ELSE IF PgrepMatch = {}
       THEN /\ pc' = [pc EXCEPT ![o] = "k_cleanup"]
            /\ killed' = [killed EXCEPT ![o] = FALSE]
            /\ UNCHANGED <<polls, sent>>
            /\ UNCHANGED wVars
       ELSE /\ Term(PgrepMatch)
            /\ sent' = [sent EXCEPT ![o] = @ \cup PgrepMatch]
            /\ killed' = [killed EXCEPT ![o] = TRUE]
            /\ polls' = [polls EXCEPT ![o] = 0]
            /\ pc' = [pc EXCEPT ![o] = "k_wait"]
    /\ UNCHANGED <<kind, out, entryPid, entryLive, lock, pidFile>>
    /\ UNCHANGED envVars
    /\ UNCHANGED unitVars
    /\ UNCHANGED histVars

\* Fallback, lines 75-80: no file returns False, int() failing returns False.
KepReadPid(o) ==
    /\ pc[o] = "k_read"
    /\ IF ~FileExists \/ FileVal = 0
       THEN /\ KepReturn(o, FALSE)
            /\ tgt' = tgt
       ELSE /\ tgt' = [tgt EXCEPT ![o] = FileVal]
            /\ pc' = [pc EXCEPT ![o] = "k_probe"]
            /\ out' = out
    /\ UNCHANGED <<kind, killed, polls, sent, entryPid, entryLive, lock,
                   pidFile>>
    /\ UNCHANGED wVars
    /\ UNCHANGED envVars
    /\ UNCHANGED unitVars
    /\ UNCHANGED histVars

\* Fallback, lines 83-85: os.kill(old_pid, 0).
KepProbe(o) ==
    /\ pc[o] = "k_probe"
    /\ pc' = [pc EXCEPT ![o] = IF Alive(tgt[o]) THEN "k_term" ELSE "k_stale"]
    /\ UNCHANGED <<kind, tgt, killed, polls, out, sent, entryPid,
                   entryLive, lock, pidFile>>
    /\ UNCHANGED wVars
    /\ UNCHANGED envVars
    /\ UNCHANGED unitVars
    /\ UNCHANGED histVars

\* Fallback, lines 86-88: pid_file.unlink() of the stale file, return False
\* (a FileNotFoundError of unlink is an IOError and returns False too).
KepUnlinkStale(o) ==
    /\ pc[o] = "k_stale"
    /\ pidFile' = NoFile
    /\ KepReturn(o, FALSE)
    /\ UNCHANGED <<kind, tgt, killed, polls, sent, entryPid, entryLive,
                   lock>>
    /\ UNCHANGED wVars
    /\ UNCHANGED envVars
    /\ UNCHANGED unitVars
    /\ UNCHANGED histVars

\* Fallback, line 92: os.kill(old_pid, SIGTERM). ProcessLookupError is not
\* a PermissionError; the outer `except (ValueError, IOError)` returns False.
KepTerm(o) ==
    /\ pc[o] = "k_term"
    /\ IF Alive(tgt[o])
       THEN /\ Term({tgt[o]})
            /\ sent' = [sent EXCEPT ![o] = @ \cup {tgt[o]}]
            /\ polls' = [polls EXCEPT ![o] = 0]
            /\ pc' = [pc EXCEPT ![o] = "k_wait"]
            /\ out' = out
       ELSE /\ KepReturn(o, FALSE)
            /\ UNCHANGED <<sent, polls>>
            /\ UNCHANGED wVars
    /\ UNCHANGED <<kind, tgt, killed, entryPid, entryLive, lock, pidFile>>
    /\ UNCHANGED envVars
    /\ UNCHANGED unitVars
    /\ UNCHANGED histVars

\* One iteration of the wait loop (lines 48-57 and 94-100).
KepWaitPoll(o) ==
    /\ pc[o] = "k_wait"
    /\ IF ~KepRunning(o)
       THEN /\ pc' = [pc EXCEPT ![o] = "k_cleanup"]
            /\ killed' = [killed EXCEPT ![o] = TRUE]
            /\ polls' = polls
       ELSE /\ polls' = [polls EXCEPT ![o] = @ + 1]
            /\ pc' = [pc EXCEPT ![o] =
                        IF polls[o] + 1 >= MaxPolls THEN "k_force" ELSE "k_wait"]
            /\ killed' = killed
    /\ UNCHANGED <<kind, tgt, out, sent, entryPid, entryLive, lock,
                   pidFile>>
    /\ UNCHANGED wVars
    /\ UNCHANGED envVars
    /\ UNCHANGED unitVars
    /\ UNCHANGED histVars

\* The else branch of the wait loop (lines 59-72 and 102-107): SIGKILL.
KepForceKill(o) ==
    /\ pc[o] = "k_force"
    /\ LET S == IF tgt[o] = 0 THEN PgrepMatch ELSE {tgt[o]}
       IN  /\ Die(S)
           /\ sent' = [sent EXCEPT ![o] = @ \cup {w \in S : Alive(w)}]
    /\ killed' = [killed EXCEPT ![o] = TRUE]
    /\ pc' = [pc EXCEPT ![o] = "k_cleanup"]
    /\ UNCHANGED <<kind, tgt, polls, out, entryPid, entryLive, lock,
                   pidFile>>
    /\ UNCHANGED envVars
    /\ UNCHANGED unitVars
    /\ UNCHANGED histVars

\* Variant: the final cleanup leaves the PID file in place.
KepCleanupKeep(o) ==
    /\ pc[o] = "k_cleanup"
    /\ KepReturn(o, killed[o])
    /\ UNCHANGED <<kind, tgt, killed, polls, sent, entryPid, entryLive,
                   lock, pidFile>>
    /\ UNCHANGED wVars
    /\ UNCHANGED envVars
    /\ UNCHANGED unitVars
    /\ UNCHANGED histVars
\* Lines 116-123: remove the PID file if it exists, return killed_any.
KepCleanup(o) ==
    /\ pc[o] = "k_cleanup"
    /\ pidFile' = NoFile
    /\ KepReturn(o, killed[o])
    /\ UNCHANGED <<kind, tgt, killed, polls, sent, entryPid, entryLive,
                   lock>>
    /\ UNCHANGED wVars
    /\ UNCHANGED envVars
    /\ UNCHANGED unitVars
    /\ UNCHANGED histVars

\* stop(), the finally block: flock(LOCK_UN) and close.
StopFinish(o) ==
    /\ pc[o] = "p_report"
    /\ lock' = IF lock = o THEN 0 ELSE lock
    /\ pc' = [pc EXCEPT ![o] = "done"]
    /\ Forget(o)
    /\ entryPid' = [entryPid EXCEPT ![o] = 0]
    /\ entryLive' = [entryLive EXCEPT ![o] = FALSE]
    /\ during' = [during EXCEPT ![o] = 0]
    /\ UNCHANGED <<kind, out, pidFile, seqd>>
    /\ UNCHANGED wVars
    /\ UNCHANGED envVars
    /\ UNCHANGED unitVars

\* ----------------------------------------------------------------- toggle
\* is_bgm_playing, lines 25-30 and 40-41: no file, or int() fails, is "not playing";
\* toggle then calls start_background_player("work", 0).
ToggleReadPid(o) ==
    /\ pc[o] = "t_read"
    /\ IF ~FileExists \/ FileVal = 0
       THEN /\ pc' = [pc EXCEPT ![o] = "s_lock"]
            /\ tgt' = tgt
       ELSE /\ pc' = [pc EXCEPT ![o] = "t_probe"]
            /\ tgt' = [tgt EXCEPT ![o] = FileVal]
    /\ UNCHANGED <<kind, killed, polls, out, sent, entryPid, entryLive,
                   lock, pidFile>>
    /\ UNCHANGED wVars
    /\ UNCHANGED envVars
    /\ UNCHANGED unitVars
    /\ UNCHANGED histVars

\* is_bgm_playing, lines 33-35: os.kill(pid, 0); a live process makes
\* toggle call kill_existing_player directly.
ToggleProbe(o) ==
    /\ pc[o] = "t_probe"
    /\ pc' = [pc EXCEPT ![o] = IF Alive(tgt[o]) THEN "k_pgrep" ELSE "t_stale"]
    /\ UNCHANGED <<kind, tgt, killed, polls, out, sent, entryPid,
                   entryLive, lock, pidFile>>
    /\ UNCHANGED wVars
    /\ UNCHANGED envVars
    /\ UNCHANGED unitVars
    /\ UNCHANGED histVars

\* is_bgm_playing, lines 36-39: unlink of the stale file, "not playing".
ToggleUnlinkStale(o) ==
    /\ pc[o] = "t_stale"
    /\ pidFile' = NoFile
    /\ pc' = [pc EXCEPT ![o] = "s_lock"]
    /\ UNCHANGED <<kind, tgt, killed, polls, out, sent, entryPid,
                   entryLive, lock>>
    /\ UNCHANGED wVars
    /\ UNCHANGED envVars
    /\ UNCHANGED unitVars
    /\ UNCHANGED histVars

\* toggle(), lines 50-56: the result of kill_existing_player is echoed.
ToggleFinish(o) ==
    /\ pc[o] = "t_report"
    /\ pc' = [pc EXCEPT ![o] = "done"]
    /\ Forget(o)
    /\ UNCHANGED <<kind, out, entryPid, entryLive, lock, pidFile>>
    /\ UNCHANGED wVars
    /\ UNCHANGED envVars
    /\ UNCHANGED unitVars
    /\ UNCHANGED histVars

\* ------------------------------------------------------------- the worker
\* Whether the PID file holds the worker's own pid (the `saved_pid ==
\* current_pid` test of the signal handler and of the finally block).
OwnsRecord(w) == FileExists /\ FileVal = w

\* The positions of a stop invocation between flock(LOCK_EX) and LOCK_UN.
StopCS ==
    {"k_pgrep", "k_read", "k_probe", "k_stale", "k_term", "k_wait", "k_force",
     "k_cleanup", "p_report"}
InStopCS(o) == kind[o] = "stop" /\ pc[o] \in StopCS

\* Bookkeeping for the properties: the stop invocations in progress have
\* run concurrently with a save_pid step.
Observed(n) ==
    during' = [o \in Ops |->
                 IF InStopCS(o) /\ during[o] < n THEN n ELSE during[o]]

\* cleanup_pid: remove the PID file if it exists.
CleanupPid == pidFile' = NoFile

\* run_player_daemon, lines 264-271: log rotation and redirection.
WorkerSetupLogging(w) ==
    /\ wpc[w] = "boot"
    /\ wpc' = [wpc EXCEPT ![w] = "start"]
    /\ UNCHANGED <<wsig, wtry, wfd, wrep, wexit, lock, pidFile>>
    /\ UNCHANGED opVars
    /\ UNCHANGED envVars
    /\ UNCHANGED unitVars
    /\ UNCHANGED histVars

\* save_pid, open(pid_file, "w"): creates the file or truncates it.
WorkerSavePidOpen(w) ==
    /\ wpc[w] = "start"
    /\ LET ino == IF FileExists THEN pidFile[1] ELSE w
       IN  /\ pidFile' = <<ino, 0>>
           /\ wfd' = [wfd EXCEPT ![w] = ino]
    /\ wpc' = [wpc EXCEPT ![w] = "saving"]
    /\ Observed(1)
    /\ UNCHANGED <<wsig, wtry, wrep, wexit, lock, seqd>>
    /\ UNCHANGED opVars
    /\ UNCHANGED envVars
    /\ UNCHANGED unitVars

\* save_pid, f.write(str(os.getpid())) and close: the text reaches the
\* inode that was opened, which the path names only if it was not unlinked.
WorkerSavePidWrite(w) ==
    /\ wpc[w] = "saving"
    /\ pidFile' = IF pidFile[1] = wfd[w] THEN <<wfd[w], w>> ELSE pidFile
    /\ wfd' = [wfd EXCEPT ![w] = 0]
    /\ wpc' = [wpc EXCEPT ![w] = "registered"]
    /\ Observed(2)
    /\ UNCHANGED <<wsig, wtry, wrep, wexit, lock, seqd>>
    /\ UNCHANGED opVars
    /\ UNCHANGED envVars
    /\ UNCHANGED unitVars

\* run_player_daemon, lines 276-298: setup_signal_handlers(signal_handler).
WorkerInstallHandlers(w) ==
    /\ wpc[w] = "registered"
    /\ wpc' = [wpc EXCEPT ![w] = "loading"]
    /\ UNCHANGED <<wsig, wtry, wfd, wrep, wexit, lock, pidFile>>
    /\ UNCHANGED opVars
    /\ UNCHANGED envVars
    /\ UNCHANGED unitVars
    /\ UNCHANGED histVars

\* An exit of the worker: the process is gone, with the given status.
WorkerExit(w, status) ==
    /\ wpc' = [wpc EXCEPT ![w] = "dead"]
    /\ wexit' = [wexit EXCEPT ![w] = status]
    /\ wsig' = [wsig EXCEPT ![w] = FALSE]
    /\ wtry' = [wtry EXCEPT ![w] = FALSE]
    /\ wrep' = [wrep EXCEPT ![w] = 0]
    /\ wfd' = wfd

\* load_selection (line 301) raising on an unreadable selection file, or
\* load_builtin_config exiting (common.py:101-102): no cleanup_pid runs.
WorkerCrash(w) ==
    /\ wpc[w] = "loading"
    /\ ~wsig[w]
    /\ WorkerExit(w, "1")
    /\ UNCHANGED <<lock, pidFile>>
    /\ UNCHANGED opVars
    /\ UNCHANGED envVars
    /\ UNCHANGED unitVars
    /\ UNCHANGED histVars

\* Assets directory, configuration, cue type or file missing, or the mixer
\* failing to initialise (lines 306-311, 81-95, 116-126, 132-140):
\* cleanup_pid() and sys.exit(1).
WorkerResourceError(w) ==
    /\ wpc[w] = "loading"
    /\ ~wsig[w]
    /\ CleanupPid
    /\ WorkerExit(w, "1")
    /\ UNCHANGED lock
    /\ UNCHANGED opVars
    /\ UNCHANGED envVars
    /\ UNCHANGED unitVars
    /\ UNCHANGED histVars

\* play_music, lines 97-102: an empty file list, cleanup_pid() and return.
WorkerEmptyCue(w) ==
    /\ wpc[w] = "loading"
    /\ ~wsig[w]
    /\ CleanupPid
    /\ WorkerExit(w, "0")
    /\ UNCHANGED lock
    /\ UNCHANGED opVars
    /\ UNCHANGED envVars
    /\ UNCHANGED unitVars
    /\ UNCHANGED histVars

\* play_music, lines 142-156: the music is loaded and playback starts.
WorkerPlay(w) ==
    /\ wpc[w] = "loading"
    /\ ~wsig[w]
    /\ wpc' = [wpc EXCEPT ![w] = "playing"]
    /\ UNCHANGED <<wsig, wtry, wfd, wrep, wexit, lock, pidFile>>
    /\ UNCHANGED opVars
    /\ UNCHANGED envVars
    /\ UNCHANGED unitVars
    /\ UNCHANGED histVars

\* play_music, line 160: get_busy() turns false after the requested number
\* of plays; with loops=-1 it never does. The finally block begins.
WorkerPlaybackEnd(w) ==
    /\ wpc[w] = "playing"
    /\ ~wsig[w]
    /\ wrep[w] >= 1
    /\ wpc' = [wpc EXCEPT ![w] = "fin_read"]
    /\ UNCHANGED <<wsig, wtry, wfd, wrep, wexit, lock, pidFile>>
    /\ UNCHANGED opVars
    /\ UNCHANGED envVars
    /\ UNCHANGED unitVars
    /\ UNCHANGED histVars

\* Delivery of a pending SIGTERM: signal_handler starts. Its sys.exit(0)
\* unwinds through the finally block of play_music when it interrupted the
\* try block.
WorkerSignal(w) ==
    /\ wsig[w]
    /\ wpc[w] \in {"loading", "playing", "fin_read", "fin_clean"}
    /\ wsig' = [wsig EXCEPT ![w] = FALSE]
    /\ wtry' = [wtry EXCEPT ![w] = (wpc[w] = "playing")]
    /\ wpc' = [wpc EXCEPT ![w] = "h_read"]
    /\ UNCHANGED <<wfd, wrep, wexit, lock, pidFile>>
    /\ UNCHANGED opVars
    /\ UNCHANGED envVars
    /\ UNCHANGED unitVars
    /\ UNCHANGED histVars

\* sys.exit(0) at the end of signal_handler.
HandlerExit(w) ==
    IF wtry[w]
    THEN /\ wpc' = [wpc EXCEPT ![w] = "fin_read"]
         /\ UNCHANGED <<wsig, wtry, wfd, wrep, wexit>>
    ELSE WorkerExit(w, "0")

\* signal_handler, lines 282-292: read the PID file and compare.
WorkerHandlerRead(w) ==
    /\ wpc[w] = "h_read"
    /\ IF OwnsRecord(w)
       THEN /\ wpc' = [wpc EXCEPT ![w] = "h_clean"]
            /\ UNCHANGED <<wsig, wtry, wfd, wrep, wexit>>
       ELSE HandlerExit(w)
    /\ UNCHANGED <<lock, pidFile>>
    /\ UNCHANGED opVars
    /\ UNCHANGED envVars
    /\ UNCHANGED unitVars
    /\ UNCHANGED histVars

\* signal_handler, line 288: cleanup_pid(), then sys.exit(0).
WorkerHandlerCleanup(w) ==
    /\ wpc[w] = "h_clean"
    /\ CleanupPid
    /\ HandlerExit(w)
    /\ UNCHANGED lock
    /\ UNCHANGED opVars
    /\ UNCHANGED envVars
    /\ UNCHANGED unitVars
    /\ UNCHANGED histVars

\* Variant: the finally block ends without looking at the PID file.
WorkerFinallySkip(w) ==
    /\ wpc[w] = "fin_read"
    /\ ~wsig[w]
    /\ WorkerExit(w, "0")
    /\ UNCHANGED <<lock, pidFile>>
    /\ UNCHANGED opVars
    /\ UNCHANGED envVars
    /\ UNCHANGED unitVars
    /\ UNCHANGED histVars
\* play_music, finally block, lines 184-194: cleanup when the file holds
\* the worker's pid, and also when reading it raised (int() of an
\* unparseable text).
WorkerFinallyRead(w) ==
    /\ wpc[w] = "fin_read"
    /\ ~wsig[w]
    /\ IF OwnsRecord(w) \/ (FileExists /\ FileVal = 0)
       THEN /\ wpc' = [wpc EXCEPT ![w] = "fin_clean"]
            /\ UNCHANGED <<wsig, wtry, wfd, wrep, wexit>>
       ELSE WorkerExit(w, "0")
    /\ UNCHANGED <<lock, pidFile>>
    /\ UNCHANGED opVars
    /\ UNCHANGED envVars
    /\ UNCHANGED unitVars
    /\ UNCHANGED histVars

\* play_music, lines 191 and 194: cleanup_pid(); the worker ends.
WorkerFinallyCleanup(w) ==
    /\ wpc[w] = "fin_clean"
    /\ ~wsig[w]
    /\ CleanupPid
    /\ WorkerExit(w, "0")
    /\ UNCHANGED lock
    /\ UNCHANGED opVars
    /\ UNCHANGED envVars
    /\ UNCHANGED unitVars
    /\ UNCHANGED histVars

\* ------------------------------------------------------------ specification
Next ==
    \/ \E o \in Ops : Invoke(o)
    \/ \E o \in Ops : StartAcquire(o)
    \/ \E o \in Ops : StartReadPid(o)
    \/ \E o \in Ops : StartTerminate(o)
    \/ \E o \in Ops : StartWaitPoll(o)
    \/ \E o \in Ops : StartForceKill(o)
    \/ \E o \in Ops : StartUnlink(o)
    \/ \E o \in Ops : StartSpawn(o)
    \/ \E o \in Ops : StartFinish(o)
    \/ \E o \in Ops : StopAcquire(o)
    \/ \E o \in Ops : KepPgrep(o)
    \/ \E o \in Ops : KepReadPid(o)
    \/ \E o \in Ops : KepProbe(o)
    \/ \E o \in Ops : KepUnlinkStale(o)
    \/ \E o \in Ops : KepTerm(o)
    \/ \E o \in Ops : KepWaitPoll(o)
    \/ \E o \in Ops : KepForceKill(o)
    \/ \E o \in Ops : KepCleanup(o)
    \/ \E o \in Ops : StopFinish(o)
    \/ \E o \in Ops : ToggleReadPid(o)
    \/ \E o \in Ops : ToggleProbe(o)
    \/ \E o \in Ops : ToggleUnlinkStale(o)
    \/ \E o \in Ops : ToggleFinish(o)
    \/ \E w \in Pids : WorkerSetupLogging(w)
    \/ \E w \in Pids : WorkerSavePidOpen(w)
    \/ \E w \in Pids : WorkerSavePidWrite(w)
    \/ \E w \in Pids : WorkerInstallHandlers(w)
    \/ \E w \in Pids : WorkerCrash(w)
    \/ \E w \in Pids : WorkerResourceError(w)
    \/ \E w \in Pids : WorkerEmptyCue(w)
    \/ \E w \in Pids : WorkerPlay(w)
    \/ \E w \in Pids : WorkerPlaybackEnd(w)
    \/ \E w \in Pids : WorkerSignal(w)
    \/ \E w \in Pids : WorkerHandlerRead(w)
    \/ \E w \in Pids : WorkerHandlerCleanup(w)
    \/ \E w \in Pids : WorkerFinallyRead(w)
    \/ \E w \in Pids : WorkerFinallyCleanup(w)

Spec == Init /\ [][Next]_vars
SpecWide == InitWide /\ [][Next]_vars

\* ---------------------------------------------------------------- properties
AliveWorkers == {w \in Pids : Alive(w)}
\* The worker has completed save_pid (or is gone).
Registered(w) == wpc[w] \notin {"unborn", "boot", "start", "saving"}
\* The invocation was a start_background_player call that spawned worker o.
Started(o) == out[o] = "started"
\* Every invocation has returned and every worker has registered or exited.
Quiescent ==
    /\ \A o \in Ops : pc[o] \in {"idle", "done"}
    /\ \A w \in Pids : wpc[w] \in {"unborn", "dead"} \/ Registered(w)

\* Positions of an invocation inside `with FileLock(...)` of
\* start_background_player or between flock(LOCK_EX) and LOCK_UN of stop.
StartCS == {"s_read", "s_term", "s_wait", "s_force", "s_unlink", "s_spawn",
            "s_report"}
InCS(o) == pc[o] \in StartCS \/ InStopCS(o)

\* C1 (P1, mutual exclusion): once every invocation has returned and every
\* spawned worker has registered or exited, at most one worker is alive and
\* the PID file names no live process other than that worker.
C1_MutualExclusion ==
    Quiescent =>
        /\ Cardinality(AliveWorkers) <= 1
        /\ (FileExists /\ Alive(FileVal)) => AliveWorkers = {FileVal}

\* C2 (P3, supersession): when start B is invoked after start A returned,
\* then once B has returned and B's worker has registered, A's worker is
\* not alive, the PID file does not hold A's pid, and it holds B's pid
\* while B's worker is running.
C2_Supersession ==
    \A a \in Ops, b \in Ops :
        (a < b /\ Started(a) /\ Started(b) /\ seqd[b] /\ pc[b] = "done"
           /\ Registered(b))
        => /\ ~Alive(a)
           /\ ~(FileExists /\ FileVal = a)
           /\ wpc[b] \in {"registered", "loading", "playing"}
                => (FileExists /\ FileVal = b)

\* C3 (stop is not lost against a start): when stop has finished
\* kill_existing_player and is about to return, no worker spawned by a
\* start that had already returned is alive. (The lock is held from the
\* acquisition to this point, so a start that has returned here ended its
\* critical section before the stop acquired the lock.)
C3_StopNotLost ==
    \A o \in Ops :
        (kind[o] = "stop" /\ pc[o] = "p_report")
        => \A w \in Pids : (Started(w) /\ pc[w] = "done") => ~Alive(w)

\* C4 (stop of a live player): if the PID file named a live worker when
\* stop took the lock, stop reports "Stopped BGM player", and at its return
\* that process is not alive and the PID file does not exist.
C4_StopLive ==
    \A o \in Ops :
        (kind[o] = "stop" /\ pc[o] = "p_report" /\ entryLive[o])
        => /\ out[o] = "stopped"
           /\ ~Alive(entryPid[o])
           /\ ~FileExists

\* C5 (P4, ownership-safe clear): a step of a worker's signal handler taken
\* while the PID file holds another worker's pid leaves the PID file as it
\* is, also when the other pid was written after the handler's read.
C5_OwnershipSafeClear ==
    [][\A w \in Pids :
          (wpc[w] \in HandlerPcs /\ wpc'[w] # wpc[w]
             /\ FileExists /\ FileVal # 0 /\ FileVal # w)
          => pidFile' = pidFile]_vars

\* C6 (lock mutual exclusion): at no time are two invocations inside their
\* lock-guarded critical section, on any platform.
C6_LockExclusion == Cardinality({o \in Ops : InCS(o)}) <= 1

\* C10 (toggle is race-safe): every step of a toggle invocation that
\* changes the PID file or signals a process is taken with the lock held
\* by that invocation.
C10_ToggleRaceSafe ==
    [][\A o \in Ops :
          (kind[o] = "toggle" /\ pc'[o] # pc[o]
             /\ (pidFile' # pidFile \/ ~(sent'[o] \subseteq sent[o])))
          => lock = o]_vars

\* ------------------------------------------------------------------ liveness
\* The steps of an invocation other than its start and the blocking flock.
OpStep(o) ==
    \/ StartReadPid(o) \/ StartTerminate(o) \/ StartWaitPoll(o)
    \/ StartForceKill(o) \/ StartUnlink(o) \/ StartSpawn(o) \/ StartFinish(o)
    \/ KepPgrep(o) \/ KepReadPid(o) \/ KepProbe(o) \/ KepUnlinkStale(o)
    \/ KepTerm(o) \/ KepWaitPoll(o) \/ KepForceKill(o) \/ KepCleanup(o)
    \/ StopFinish(o) \/ ToggleReadPid(o) \/ ToggleProbe(o)
    \/ ToggleUnlinkStale(o) \/ ToggleFinish(o)

\* Fair scheduling: a running invocation keeps taking steps, and one that
\* is blocked in flock(LOCK_EX) obtains the lock if it is free again and
\* again. Nothing is assumed about the workers.
Fairness ==
    \A o \in Ops :
        /\ WF_vars(OpStep(o))
        /\ SF_vars(StartAcquire(o))
        /\ SF_vars(StopAcquire(o))

LiveSpec == Init /\ [][Next]_vars /\ Fairness

\* C7 (liveness of lifecycle operations): under fair scheduling every
\* start_background_player and stop invocation that waits for the lock
\* eventually returns, and an invocation that has returned does not hold
\* the lock.
C7_Liveness ==
    /\ \A o \in Ops : (pc[o] \in {"s_lock", "p_lock"}) ~> (pc[o] = "done")
    /\ [](\A o \in Ops : pc[o] = "done" => lock # o)

\* An invocation is blocked in flock while another one, which has signalled
\* a player and taken the lock before it, is about to release the lock.
C7_Witness ==
    \E o \in Ops, h \in Ops :
        /\ pc[o] \in {"s_lock", "p_lock"}
        /\ lock = h
        /\ h # o
        /\ pc[h] \in {"s_report", "p_report"}

C9_StaleRecordOnStop ==
    \A o \in Ops :
        (kind[o] = "stop" /\ pc[o] = "p_report" /\ entryPid[o] # 0
           /\ ~entryLive[o] /\ during[o] = 0)
        => (out[o] = "none" /\ ~FileExists)

C9_Witness ==
    \E o \in Ops :
        /\ kind[o] = "stop" /\ pc[o] = "p_report" /\ entryPid[o] # 0
        /\ ~entryLive[o] /\ during[o] = 0
        /\ wpc[entryPid[o]] = "dead"
        /\ out[o] = "none"

\* --------------------------------------------------- identity record, worker
\* The positions at which a command reads the PID file, and those at which
\* a worker does (signal handler, finally block of play_music).
ReadPcs == {"s_read", "k_read", "t_read"}
WorkerReadPcs == {"h_read", "fin_read"}
\* A worker is between the open(pid_file, "w") and the write of save_pid on
\* the file the path names.
SavingInto == \E w \in Pids : wpc[w] = "saving" /\ wfd[w] = pidFile[1]

\* C11 (atomic identity write): no reader of the PID file (a command's
\* kill_existing_process, kill_existing_player, is_bgm_playing, or another
\* worker's signal handler or finally block) reads it empty while a worker
\* executes save_pid.
C11_AtomicIdentityWrite ==
    [][(\/ \E o \in Ops : pc[o] \in ReadPcs /\ pc'[o] # pc[o]
        \/ \E w \in Pids : wpc[w] \in WorkerReadPcs /\ wpc'[w] # wpc[w])
       => ~(FileExists /\ FileVal = 0 /\ SavingInto)]_vars

\* C12 (ownership-checked clear on every worker exit path): a step of a
\* worker that removes the PID file finds the worker's own pid in it.
C12_OwnedClearOnExit ==
    [][\A w \in Pids :
          (wpc'[w] # wpc[w] /\ FileExists /\ pidFile' = NoFile)
          => FileVal = w]_vars

\* The positions of a worker after save_pid has returned.
PostReg == {"registered", "loading", "playing", "fin_read", "fin_clean",
            "h_read", "h_clean"}
\* The step is a command's SIGTERM that reaches worker w.
TermStep(w) ==
    \E o \in Ops : /\ pc[o] \in {"s_term", "k_term", "k_pgrep"}
                   /\ pc'[o] # pc[o]
                   /\ w \in sent'[o]
\* The step is a command's SIGKILL.
ForceStep == \E o \in Ops : pc[o] \in {"s_force", "k_force"} /\ pc'[o] # pc[o]

\* C13 (worker shutdown on cooperative signal): on Unix a worker that has
\* written its PID and ends after a SIGTERM was sent to it, not by SIGKILL,
\* exits with status 0 and leaves no PID file holding its own pid.
C13_CooperativeShutdown ==
    [][\A w \in Pids :
          (/\ platform = "unix"
           /\ wpc[w] \in PostReg
           /\ wpc'[w] = "dead"
           /\ ~ForceStep
           /\ (wsig[w] \/ wpc[w] \in HandlerPcs \/ wtry[w] \/ TermStep(w)))
          => /\ wexit'[w] = "0"
             /\ ~(pidFile'[1] # 0 /\ pidFile'[2] = w)]_vars

\* The PID file is absent or its text is not an integer.
NoOwner == ~FileExists \/ FileVal = 0

\* C14 (corrupt or missing identity is "no current owner"): with the PID
\* file absent or unparseable, kill_existing_process returns to the spawn,
\* kill_existing_player reports nothing stopped, is_bgm_playing answers
\* False leaving the file alone, the signal handler (a step of the worker
\* itself) ends with exit 0 leaving the file alone, and none of them signals
\* or ends a process.
C14_CorruptIdentity ==
    [][NoOwner =>
        /\ \A o \in Ops :
             (pc[o] = "s_read" /\ pc'[o] # pc[o])
             => (pc'[o] = "s_spawn" /\ sent'[o] = sent[o] /\ wpc' = wpc)
        /\ \A o \in Ops :
             (pc[o] = "k_read" /\ pc'[o] # pc[o])
             => /\ pc'[o] \in {"p_report", "t_report"}
                /\ out'[o] = "none"
                /\ sent'[o] = sent[o]
                /\ wpc' = wpc
        /\ \A o \in Ops :
             (pc[o] = "k_cleanup" /\ pc'[o] # pc[o] /\ tgt[o] = 0
                /\ sent[o] = {})
             => out'[o] = "none"
        /\ \A o \in Ops :
             (pc[o] = "t_read" /\ pc'[o] # pc[o])
             => /\ pc'[o] = "s_lock"
                /\ pidFile' = pidFile
                /\ sent'[o] = sent[o]
                /\ wpc' = wpc
        /\ \A w \in Pids :
             (wpc[w] = "h_read" /\ wpc'[w] # wpc[w] /\ pc' = pc)
             => /\ pidFile' = pidFile
                /\ wpc'[w] \in {"dead", "fin_read"}
                /\ (wpc'[w] = "dead" => wexit'[w] = "0")]_vars

\* A start has read a PID file without owner and goes on to spawn, while the
\* file is there with unparseable text.
C14_Witness ==
    \E o \in Ops :
        /\ pc[o] = "s_spawn" /\ tgt[o] = 0 /\ sent[o] = {}
        /\ FileExists /\ FileVal = 0

\* ------------------------------------------------- ends of a critical section
\* Variant: the lock outlives the process that took it.
OpAbortLeak(o) ==
    /\ InCS(o)
    /\ pc' = [pc EXCEPT ![o] = "done"]
    /\ out' = [out EXCEPT ![o] = "aborted"]
    /\ Forget(o)
    /\ entryPid' = [entryPid EXCEPT ![o] = 0]
    /\ entryLive' = [entryLive EXCEPT ![o] = FALSE]
    /\ during' = [during EXCEPT ![o] = 0]
    /\ UNCHANGED <<kind, lock, pidFile, seqd>>
    /\ UNCHANGED wVars
    /\ UNCHANGED envVars
    /\ UNCHANGED unitVars
\* A command ends inside its critical section: an exception (of Popen, of a
\* probe or signal, of file I/O) unwinds through FileLock.__exit__ or
\* through the finally block of stop(), or the process is killed and the
\* kernel closes lock_fd, the only descriptor of the lock (os.open
\* descriptors are not inherited and Popen runs with close_fds=True).
OpAbort(o) ==
    /\ InCS(o)
    /\ lock' = IF lock = o THEN 0 ELSE lock
    /\ pc' = [pc EXCEPT ![o] = "done"]
    /\ out' = [out EXCEPT ![o] = "aborted"]
    /\ Forget(o)
    /\ entryPid' = [entryPid EXCEPT ![o] = 0]
    /\ entryLive' = [entryLive EXCEPT ![o] = FALSE]
    /\ during' = [during EXCEPT ![o] = 0]
    /\ UNCHANGED <<kind, pidFile, seqd>>
    /\ UNCHANGED wVars
    /\ UNCHANGED envVars
    /\ UNCHANGED unitVars

\* The commands on a Unix host, where FileLock locks.
InitAbort == nops = MaxOps /\ Start /\ platform = "unix"
NextAbort == Next \/ \E o \in Ops : OpAbort(o)
SpecAbort == InitAbort /\ [][NextAbort]_vars

\* C15 (lock release on every exit path): a command that has ended, by a
\* normal return or inside its critical section, does not hold the lock, and
\* the lock is free whenever no command is inside its critical section, so
\* that the next flock(LOCK_EX) succeeds.
C15_LockReleased ==
    /\ \A o \in Ops : pc[o] = "done" => lock # o
    /\ (\A o \in Ops : ~InCS(o)) => lock = 0

\* A command ended inside its critical section and a later one holds the
\* lock.
C15_Witness ==
    \E h \in Ops, o \in Ops :
        /\ out[h] = "aborted" /\ pc[h] = "done"
        /\ o # h /\ lock = o /\ InCS(o)

\* ------------------------------------------------------ functions on their own
detVars == <<wfound, wlog, wloops, wplayed>>
progVars == <<opVars, wVars, envVars, histVars, lock, pidFile, detVars>>
killVars == <<kpc, kproc, kperm, kgrace, kbreak, kpolls, ksigs, kret>>
existsVars == <<exOut, exRet>>
lockObjVars == <<flFd, flHeld, flSys, flErr, flCalls>>
logVars == <<logOn, logLines>>
rotVars == <<lm_max_lines, lm_keep_lines, rpc, lfCond, lfExists, lfLines,
             lfNext, lfOrig, tmpExists, tmpLines, rwarn,
             rworkers, rcalls>>

\* What os.kill(pid, 0) does: returns, raises ProcessLookupError,
\* PermissionError or another OSError, or raises OverflowError for an int
\* that is no pid_t value.
ProbeOutcomes == {"ok", "nosuch", "perm", "oserr", "overflow"}
\* The probe of the target of the kill_process call.
Probe ==
    CASE kproc = "norange" -> "overflow"
      [] kproc = "dead" -> "nosuch"
      [] kperm -> "perm"
      [] OTHER -> "ok"

\* ProcessManager.check_process_exists: True, False on ProcessLookupError,
\* True on PermissionError/OSError; any other exception propagates.
check_process_exists(oc) ==
    CASE oc = "ok" -> "true"
      [] oc = "nosuch" -> "false"
      [] oc \in {"perm", "oserr"} -> "true"
      [] OTHER -> "raised"

\* A call of check_process_exists, for each outcome of its probe.
ExistsCall ==
    /\ \E oc \in ProbeOutcomes :
         /\ exOut' = oc
         /\ exRet' = check_process_exists(oc)
    /\ UNCHANGED <<killVars, lockObjVars, logVars>>
    /\ UNCHANGED rotVars
    /\ UNCHANGED progVars

\* kill_process(pid, graceful, timeout) is called.
KpCall ==
    /\ kpc = "idle"
    /\ \E tp \in {"alive", "dead", "norange"}, pm \in BOOLEAN,
          g \in BOOLEAN, b \in BOOLEAN :
         /\ pm => tp = "alive"
         /\ b => platform = "windows"
         /\ kproc' = tp
         /\ kperm' = pm
         /\ kgrace' = g
         /\ kbreak' = b
    /\ kpc' = "check"
    /\ kpolls' = 0
    /\ ksigs' = {}
    /\ kret' = "none"
    /\ UNCHANGED <<existsVars, lockObjVars, logVars>>
    /\ UNCHANGED rotVars
    /\ UNCHANGED progVars

\* The target ends on its own, or as the effect of a signal it was sent.
KpProcDies ==
    /\ kpc \in {"check", "term", "wait", "esc", "final"}
    /\ kproc = "alive"
    /\ kproc' = "dead"
    /\ UNCHANGED <<kpc, kperm, kgrace, kbreak, kpolls, ksigs, kret>>
    /\ UNCHANGED <<existsVars, lockObjVars, logVars>>
    /\ UNCHANGED rotVars
    /\ UNCHANGED progVars

\* kill_process, lines 55-56: not existing returns False.
KpCheck ==
    /\ kpc = "check"
    /\ LET r == check_process_exists(Probe)
       IN  IF r = "true"
           THEN kpc' = "term" /\ kret' = kret
           ELSE kpc' = "ret" /\ kret' = r
    /\ UNCHANGED <<kproc, kperm, kgrace, kbreak, kpolls, ksigs>>
    /\ UNCHANGED <<existsVars, lockObjVars, logVars>>
    /\ UNCHANGED rotVars
    /\ UNCHANGED progVars

\* Variant: the forceful signal follows the cooperative one at once.
KpTermEscalates ==
    /\ kpc = "term"
    /\ IF Probe = "ok"
       THEN /\ ksigs' = ksigs \cup {"SIGTERM"}
            /\ kpc' = "esc"
            /\ kret' = kret
       ELSE /\ ksigs' = ksigs
            /\ kpc' = "ret"
            /\ kret' = "false"
    /\ UNCHANGED <<kproc, kperm, kgrace, kbreak, kpolls>>
    /\ UNCHANGED <<existsVars, lockObjVars, logVars>>
    /\ UNCHANGED rotVars
    /\ UNCHANGED progVars
\* _kill_unix line 95, _kill_windows line 70: os.kill(pid, SIGTERM); its
\* ProcessLookupError or PermissionError is caught at lines 63-64.
KpTerm ==
    /\ kpc = "term"
    /\ IF Probe = "ok"
       THEN /\ ksigs' = ksigs \cup {"SIGTERM"}
            /\ kpc' = IF kgrace THEN "wait" ELSE "final"
            /\ kret' = kret
       ELSE /\ ksigs' = ksigs
            /\ kpc' = "ret"
            /\ kret' = "false"
    /\ UNCHANGED <<kproc, kperm, kgrace, kbreak, kpolls>>
    /\ UNCHANGED <<existsVars, lockObjVars, logVars>>
    /\ UNCHANGED rotVars
    /\ UNCHANGED progVars

\* One iteration of the wait loop (lines 100-104, 75-79).
KpWaitPoll ==
    /\ kpc = "wait"
    /\ IF check_process_exists(Probe) = "false"
       THEN kpc' = "ret" /\ kret' = "true" /\ kpolls' = kpolls
       ELSE /\ kpolls' = kpolls + 1
            /\ kpc' = IF kpolls + 1 >= MaxPolls THEN "esc" ELSE "wait"
            /\ kret' = kret
    /\ UNCHANGED <<kproc, kperm, kgrace, kbreak, ksigs>>
    /\ UNCHANGED <<existsVars, lockObjVars, logVars>>
    /\ UNCHANGED rotVars
    /\ UNCHANGED progVars

\* Variant: the escalation is SIGKILL whatever the platform.
KpEscalateKill ==
    /\ kpc = "esc"
    /\ IF kproc = "alive"
       THEN ksigs' = ksigs \cup {"SIGKILL"} /\ kproc' = "dead"
       ELSE ksigs' = ksigs /\ kproc' = kproc
    /\ kpc' = "final"
    /\ UNCHANGED <<kperm, kgrace, kbreak, kpolls, kret>>
    /\ UNCHANGED <<existsVars, lockObjVars, logVars>>
    /\ UNCHANGED rotVars
    /\ UNCHANGED progVars
\* After the wait: os.kill(pid, SIGKILL) on Unix (lines 106-111);
\* os.kill(pid, CTRL_BREAK_EVENT) on Windows when the signal module has it
\* (lines 81-87). An exception of either is swallowed.
KpEscalate ==
    /\ kpc = "esc"
    /\ IF platform = "unix"
       THEN IF kproc = "alive"
            THEN ksigs' = ksigs \cup {"SIGKILL"} /\ kproc' = "dead"
            ELSE ksigs' = ksigs /\ kproc' = kproc
       ELSE /\ ksigs' = IF kbreak /\ kproc = "alive"
                        THEN ksigs \cup {"CTRL_BREAK_EVENT"} ELSE ksigs
            /\ kproc' = kproc
    /\ kpc' = "final"
    /\ UNCHANGED <<kperm, kgrace, kbreak, kpolls, kret>>
    /\ UNCHANGED <<existsVars, lockObjVars, logVars>>
    /\ UNCHANGED rotVars
    /\ UNCHANGED progVars

\* Lines 113 and 89: return not check_process_exists(pid).
KpFinal ==
    /\ kpc = "final"
    /\ kret' = IF check_process_exists(Probe) = "true" THEN "false" ELSE "true"
    /\ kpc' = "ret"
    /\ UNCHANGED <<kproc, kperm, kgrace, kbreak, kpolls, ksigs>>
    /\ UNCHANGED <<existsVars, lockObjVars, logVars>>
    /\ UNCHANGED rotVars
    /\ UNCHANGED progVars

\* The caller goes on.
KpDone ==
    /\ kpc = "ret"
    /\ kpc' = "idle"
    /\ kproc' = "dead"
    /\ kperm' = FALSE
    /\ kgrace' = FALSE
    /\ kbreak' = FALSE
    /\ kpolls' = 0
    /\ ksigs' = {}
    /\ kret' = "none"
    /\ UNCHANGED <<existsVars, lockObjVars, logVars>>
    /\ UNCHANGED rotVars
    /\ UNCHANGED progVars

\* FileLock.__enter__ on an object that holds no descriptor.
FlEnter ==
    /\ Len(flCalls) < MaxCalls
    /\ flFd = 0
    /\ flCalls' = Append(flCalls, "enter")
    /\ IF platform = "unix"
       THEN flFd' = 1 /\ flHeld' = TRUE
       ELSE flFd' = flFd /\ flHeld' = flHeld
    /\ UNCHANGED <<flSys, flErr>>
    /\ UNCHANGED <<killVars, existsVars, logVars>>
    /\ UNCHANGED rotVars
    /\ UNCHANGED progVars

\* Variant: __exit__ unlocks and closes without looking at lock_fd.
FlExitUnguarded ==
    /\ Len(flCalls) < MaxCalls
    /\ flCalls' = Append(flCalls, "exit")
    /\ IF flFd # 0
       THEN flHeld' = FALSE /\ flSys' = flSys + 1 /\ flErr' = flErr
       ELSE flHeld' = flHeld /\ flSys' = flSys /\ flErr' = TRUE
    /\ flFd' = 0
    /\ UNCHANGED <<killVars, existsVars, logVars>>
    /\ UNCHANGED rotVars
    /\ UNCHANGED progVars
\* FileLock.__exit__: flock(LOCK_UN), close and lock_fd = None, only when
\* lock_fd is not None on Unix.
FlExit ==
    /\ Len(flCalls) < MaxCalls
    /\ flCalls' = Append(flCalls, "exit")
    /\ IF flFd # 0 /\ platform = "unix"
       THEN flHeld' = FALSE /\ flSys' = flSys + 1 /\ flFd' = 0
       ELSE flHeld' = flHeld /\ flSys' = flSys /\ flFd' = flFd
    /\ flErr' = flErr
    /\ UNCHANGED <<killVars, existsVars, logVars>>
    /\ UNCHANGED rotVars
    /\ UNCHANGED progVars

\* LogManager.rotate_if_needed: more than max_lines lines are replaced by
\* the rotation marker and the last keep_lines lines.
rotate_if_needed(n) == IF n <= max_lines THEN n ELSE keep_lines + 1

\* setup_daemon_logging at the start of a worker: rotation, then stdout and
\* stderr are appended to the log.
LogSetup ==
    /\ ~logOn
    /\ logLines' = rotate_if_needed(logLines)
    /\ logOn' = TRUE
    /\ UNCHANGED <<killVars, existsVars, lockObjVars>>
    /\ UNCHANGED rotVars
    /\ UNCHANGED progVars

\* The worker prints: its start-up lines and, while the music plays, one
\* line every 100 iterations of the loop of play_music.
LogAppend ==
    /\ logOn
    /\ logLines + LogBatch <= LogCap
    /\ logLines' = logLines + LogBatch
    /\ UNCHANGED logOn
    /\ UNCHANGED <<killVars, existsVars, lockObjVars>>
    /\ UNCHANGED rotVars
    /\ UNCHANGED progVars

\* The worker ends.
LogWorkerEnd ==
    /\ logOn
    /\ logOn' = FALSE
    /\ UNCHANGED logLines
    /\ UNCHANGED <<killVars, existsVars, lockObjVars>>
    /\ UNCHANGED rotVars
    /\ UNCHANGED progVars

InitUnit == nops = 0 /\ Start /\ ~pgrepOK
NextUnit ==
    \/ ExistsCall
    \/ KpCall
    \/ KpProcDies
    \/ KpCheck
    \/ KpTerm
    \/ KpWaitPoll
    \/ KpEscalate
    \/ KpFinal
    \/ KpDone
    \/ FlEnter
    \/ FlExit
    \/ LogSetup
    \/ LogAppend
    \/ LogWorkerEnd
SpecUnit == InitUnit /\ [][NextUnit]_vars

\* C16 (release is idempotent-safe): an __exit__ on a FileLock that holds
\* no descriptor (released before, or never acquired) raises nothing,
\* unlocks and closes nothing, and leaves the lock as it was.
C16_ReleaseIdempotent ==
    [][(/\ Len(flCalls') > Len(flCalls)
        /\ flCalls'[Len(flCalls')] = "exit"
        /\ flFd = 0)
       => (flFd' = 0 /\ flHeld' = flHeld /\ flSys' = flSys /\ ~flErr')]_vars

\* The lock was taken, released, and released again.
C16_Witness ==
    /\ platform = "unix"
    /\ flCalls = <<"enter", "exit", "exit">>
    /\ flSys = 1
    /\ ~flHeld

\* C17 (terminate result): kill_process returns True if and only if the
\* process is not alive when the call returns.
C17_TerminateResult ==
    kpc = "ret" => (kret = "true" <=> kproc # "alive")

\* C18 (exists is conservative): check_process_exists returns False only
\* when the probe reports no such process, True when it fails with
\* permission denied, and never raises.
C18_ExistsConservative ==
    /\ exRet = "false" => exOut = "nosuch"
    /\ exOut = "perm" => exRet = "true"
    /\ exRet # "raised"

\* C19 (forceful-kill degradation): on Windows kill_process never delivers
\* SIGKILL; the step after the graceful wait delivers CTRL_BREAK_EVENT when
\* the signal module has it, and raises nothing; the value returned is the
\* negation of the existence check made after that step.
C19_ForcefulDegradation ==
    [][platform = "windows" =>
        /\ "SIGKILL" \notin ksigs'
        /\ (kpc = "esc" /\ kpc' # kpc)
           => /\ kpc' = "final"
              /\ kret' # "raised"
              /\ ksigs' = IF kbreak /\ kproc = "alive"
                          THEN ksigs \cup {"CTRL_BREAK_EVENT"} ELSE ksigs
        /\ (kpc = "final" /\ kpc' # kpc)
           => /\ kpc' = "ret"
              /\ kret' = IF check_process_exists(Probe) = "true"
                         THEN "false" ELSE "true"]_vars

\* A call on Windows has returned after delivering CTRL_BREAK_EVENT.
C19_Witness ==
    /\ platform = "windows"
    /\ kpc = "ret"
    /\ "CTRL_BREAK_EVENT" \in ksigs
    /\ kret \in {"true", "false"}

\* C20 (log bound invariant): the log file never has more than max_lines
\* lines.
C20_LogBound == logLines <= max_lines

\* ------------------------------------------------------------- log rotation
\* The log file line by line. A printed line carries its number; the line
\* written at logger.py:80 carries the number of lines it announces.
Line(i) == <<"line", i>>
Marker(k) == <<"rotated", k>>

\* Variant: the slice selects the whole list for every keep_lines.
recent_linesAll(lines, kl) == lines
\* lines[-self.keep_lines:], a Python slice: -0 is 0, so keep_lines = 0
\* selects the whole list; a start before the first element is clipped.
recent_lines(lines, kl) ==
    IF kl = 0
    THEN lines
    ELSE SubSeq(lines, IF Len(lines) > kl THEN Len(lines) - kl + 1 ELSE 1,
                Len(lines))

\* Variant: the file is left alone only below max_lines.
NoRotationBelow(line_count, ml) == line_count < ml
\* logger.py:67, `if line_count <= self.max_lines: return`.
NoRotation(line_count, ml) == line_count <= ml

\* What the worker meets at the log path: nothing unusual; a file it may
\* append to but not read; a file it may neither read nor append to; a read
\* error on the second pass; a directory in which no file can be created; a
\* replace() that is refused (on Windows, a target another process has open).
LogConds == {"ok", "unreadable", "noaccess", "readerr", "dirro", "noreplace"}

\* os.open(log_file, O_WRONLY | O_CREAT | O_APPEND) of logger.py:105 fails.
AttachFails ==
    \/ lfCond = "noaccess" /\ lfExists
    \/ lfCond = "dirro" /\ ~lfExists

\* The except clause of rotate_if_needed (lines 86-88): print the warning
\* and return.
RotWarn ==
    /\ rwarn' = TRUE
    /\ rpc' = "ret"

\* run_player_daemon, lines 265-266, and logger.py 98, 56-57:
\* LogManager(log_file, max_lines, keep_lines) is constructed,
\* setup_daemon_logging calls rotate_if_needed, which returns at once when
\* the file does not exist.
RotCall ==
    /\ rpc = "idle"
    /\ rworkers < MaxWorkers
    /\ rworkers' = rworkers + 1
    /\ rcalls' = 1
    /\ \E ml \in 0..MaxLimit, c \in LogConds :
         \E kl \in 0..ml :
            /\ lm_max_lines' = ml
            /\ lm_keep_lines' = kl
            /\ lfCond' = c
    /\ lfOrig' = <<lfExists, lfLines, tmpExists, tmpLines>>
    /\ rwarn' = FALSE
    /\ rpc' = IF lfExists THEN "count" ELSE "ret"
    /\ UNCHANGED <<lfExists, lfLines, lfNext, tmpExists, tmpLines>>
    /\ UNCHANGED <<killVars, existsVars, lockObjVars, logVars>>
    /\ UNCHANGED progVars

\* Lines 60-68: the file is opened and its lines are counted.
RotCount ==
    /\ rpc = "count"
    /\ IF lfCond \in {"unreadable", "noaccess"}
       THEN RotWarn
       ELSE /\ rpc' = IF NoRotation(Len(lfLines), lm_max_lines)
                      THEN "ret" ELSE "read"
            /\ rwarn' = rwarn
    /\ UNCHANGED <<lm_max_lines, lm_keep_lines, lfCond, lfExists, lfLines,
                   lfNext, lfOrig, tmpExists, tmpLines>>
    /\ UNCHANGED <<rworkers, rcalls>>
    /\ UNCHANGED <<killVars, existsVars, lockObjVars, logVars>>
    /\ UNCHANGED progVars

\* Lines 71-75: readlines().
RotRead ==
    /\ rpc = "read"
    /\ IF lfCond = "readerr"
       THEN RotWarn
       ELSE rpc' = "write" /\ rwarn' = rwarn
    /\ UNCHANGED <<lm_max_lines, lm_keep_lines, lfCond, lfExists, lfLines,
                   lfNext, lfOrig, tmpExists, tmpLines>>
    /\ UNCHANGED <<rworkers, rcalls>>
    /\ UNCHANGED <<killVars, existsVars, lockObjVars, logVars>>
    /\ UNCHANGED progVars

\* Variant: the new content is written over the log file itself.
RotWriteInPlace ==
    /\ rpc = "write"
    /\ IF lfCond = "dirro"
       THEN RotWarn /\ UNCHANGED lfLines
       ELSE LET recent == recent_lines(lfLines, lm_keep_lines)
            IN  /\ lfLines' = <<Marker(Len(recent))>> \o recent
                /\ rpc' = "replace"
                /\ rwarn' = rwarn
    /\ UNCHANGED <<lm_max_lines, lm_keep_lines, lfCond, lfExists, lfNext,
                   lfOrig, tmpExists, tmpLines>>
    /\ UNCHANGED <<rworkers, rcalls>>
    /\ UNCHANGED <<killVars, existsVars, lockObjVars, logVars>>
    /\ UNCHANGED progVars
\* Lines 78-81: the temp file receives the marker and recent_lines.
RotWrite ==
    /\ rpc = "write"
    /\ IF lfCond = "dirro"
       THEN RotWarn /\ UNCHANGED <<tmpExists, tmpLines>>
       ELSE LET recent == recent_lines(lfLines, lm_keep_lines)
            IN  /\ tmpExists' = TRUE
                /\ tmpLines' = <<Marker(Len(recent))>> \o recent
                /\ rpc' = "replace"
                /\ rwarn' = rwarn
    /\ UNCHANGED <<lm_max_lines, lm_keep_lines, lfCond, lfExists, lfLines,
                   lfNext, lfOrig>>
    /\ UNCHANGED <<rworkers, rcalls>>
    /\ UNCHANGED <<killVars, existsVars, lockObjVars, logVars>>
    /\ UNCHANGED progVars

\* Line 84: temp_file.replace(self.log_file).
RotReplace ==
    /\ rpc = "replace"
    /\ IF lfCond = "noreplace"
       THEN RotWarn /\ UNCHANGED <<lfLines, tmpExists, tmpLines>>
       ELSE /\ lfLines' = tmpLines
            /\ tmpExists' = FALSE
            /\ tmpLines' = <<>>
            /\ rpc' = "ret"
            /\ rwarn' = rwarn
    /\ UNCHANGED <<lm_max_lines, lm_keep_lines, lfCond, lfExists, lfNext,
                   lfOrig>>
    /\ UNCHANGED <<rworkers, rcalls>>
    /\ UNCHANGED <<killVars, existsVars, lockObjVars, logVars>>
    /\ UNCHANGED progVars

\* setup_daemon_logging, lines 101-114, after rotate_if_needed returned:
\* os.open creates the file if need be; its OSError is caught nowhere, so
\* the worker ends there, before save_pid.
RotAttach ==
    /\ rpc = "ret"
    /\ IF AttachFails
       THEN rpc' = "crashed" /\ lfExists' = lfExists
       ELSE rpc' = "attached" /\ lfExists' = TRUE
    /\ UNCHANGED <<lm_max_lines, lm_keep_lines, lfCond, lfLines, lfNext,
                   lfOrig, tmpExists, tmpLines, rwarn>>
    /\ UNCHANGED <<rworkers, rcalls>>
    /\ UNCHANGED <<killVars, existsVars, lockObjVars, logVars>>
    /\ UNCHANGED progVars

\* The attached worker prints a line (play.py 269, 276, 128, 166).
RotPrint ==
    /\ rpc = "attached"
    /\ lfNext <= MaxPrinted
    /\ lfLines' = Append(lfLines, Line(lfNext))
    /\ lfNext' = lfNext + 1
    /\ UNCHANGED <<lm_max_lines, lm_keep_lines, rpc, lfCond, lfExists, lfOrig,
                   tmpExists, tmpLines, rwarn>>
    /\ UNCHANGED <<rworkers, rcalls>>
    /\ UNCHANGED <<killVars, existsVars, lockObjVars, logVars>>
    /\ UNCHANGED progVars

\* The worker is gone; the files stay as they are.
RotWorkerEnd ==
    /\ rpc \in {"attached", "crashed"}
    /\ rpc' = "idle"
    /\ lm_max_lines' = 0
    /\ lm_keep_lines' = 0
    /\ lfCond' = "ok"
    /\ lfOrig' = <<FALSE, <<>>, FALSE, <<>> >>
    /\ rwarn' = FALSE
    /\ rcalls' = 0
    /\ UNCHANGED <<lfExists, lfLines, lfNext, tmpExists, tmpLines>>
    /\ UNCHANGED rworkers
    /\ UNCHANGED <<killVars, existsVars, lockObjVars, logVars>>
    /\ UNCHANGED progVars

InitLog == nops = 0 /\ Start /\ ~pgrepOK /\ platform = "unix"
NextLog ==
    \/ RotCall
    \/ RotCount
    \/ RotRead
    \/ RotWrite
    \/ RotReplace
    \/ RotAttach
    \/ RotPrint
    \/ RotWorkerEnd
SpecLog == InitLog /\ [][NextLog]_vars

\* C21 (P5, rotation result): when rotate_if_needed has run without an I/O
\* failure on a file of more than max_lines lines (0 <= keep_lines <=
\* max_lines), the file is one marker line that states keep_lines, followed
\* by the last keep_lines lines of the original file, in order: at most
\* keep_lines + 1 lines.
C21_RotationResult ==
    (rpc = "ret" /\ ~rwarn /\ lfOrig[1] /\ Len(lfOrig[2]) > lm_max_lines)
    => LET orig == lfOrig[2]
           n == Len(orig)
       IN  /\ lfExists
           /\ lfLines = <<Marker(lm_keep_lines)>>
                        \o SubSeq(orig, n - lm_keep_lines + 1, n)
           /\ Len(lfLines) <= lm_keep_lines + 1

\* C22 (rotation no-op cases): when rotate_if_needed has returned for a log
\* file that did not exist, or that had at most max_lines lines, the log
\* file and the temp file are as they were: the file is not created, its
\* lines are the same, no temp file has appeared.
C22_RotationNoOp ==
    (rpc = "ret" /\ (~lfOrig[1] \/ Len(lfOrig[2]) <= lm_max_lines))
    => <<lfExists, lfLines, tmpExists, tmpLines>> = lfOrig

\* rotate_if_needed has returned for a file of exactly max_lines lines.
C22_Witness ==
    /\ rpc = "ret"
    /\ ~rwarn
    /\ lfOrig[1]
    /\ lm_max_lines >= 1
    /\ Len(lfOrig[2]) = lm_max_lines
    /\ lfLines = lfOrig[2]

\* C23 (rotation failure is never fatal): rotate_if_needed never raises,
\* and a worker whose rotate_if_needed met an I/O failure goes on to attach
\* its output to the log.
C23_RotationNeverFatal ==
    /\ rpc # "raised"
    /\ rwarn => rpc # "crashed"

\* --------------------------------------------- the worker, check by check
otherUnitVars == <<killVars, existsVars, lockObjVars, logVars, rotVars>>

\* Popen of start_background_player with any LOOP argument up to MaxRepeat.
StartSpawnN(o) ==
    /\ pc[o] = "s_spawn"
    /\ wpc' = [wpc EXCEPT ![o] = "boot"]
    /\ \E n \in 0..MaxRepeat :
         /\ kind[o] = "toggle" => n = 0
         /\ wrep' = [wrep EXCEPT ![o] = n]
    /\ out' = [out EXCEPT ![o] = "started"]
    /\ pc' = [pc EXCEPT ![o] = "s_report"]
    /\ UNCHANGED <<kind, tgt, killed, polls, sent, entryPid, entryLive,
                   lock, pidFile, wsig, wtry, wfd, wexit>>
    /\ UNCHANGED envVars
    /\ UNCHANGED unitVars
    /\ UNCHANGED histVars

\* setup_daemon_logging either completes, or its os.open (logger.py:105)
\* raises and the exception ends the worker: nothing between there and the
\* interpreter's top level catches it.
WorkerSetupLoggingIO(w) ==
    \/ WorkerSetupLogging(w)
    \/ /\ wpc[w] = "boot"
       /\ WorkerExit(w, "1")
       /\ wfound' = [wfound EXCEPT ![w] = "nolog"]
       /\ UNCHANGED <<wlog, wloops, wplayed, lock, pidFile>>
       /\ UNCHANGED opVars
       /\ UNCHANGED envVars
       /\ UNCHANGED otherUnitVars
       /\ UNCHANGED histVars

\* The checks of run_player_daemon and play_music in the order of the code:
\* assets directory (306), configuration name (81), cue type (89), empty
\* file list (99), asset file (116), mixer (133).
ErrorKinds == {"assets", "config", "cue", "file", "audio"}
LoadOutcomes == ErrorKinds \cup {"empty", "ok"}

\* Variant: loops is the repeat count itself.
MixerLoopsAsCount(repeat) == repeat
\* play_music, lines 147-156: loops=-1 for repeat 0, else repeat - 1.
MixerLoops(repeat) == IF repeat = 0 THEN -1 ELSE repeat - 1

\* Variant: the error exits leave the PID file alone.
WorkerLoadKeepPid(w) ==
    /\ wpc[w] = "loading"
    /\ ~wsig[w]
    /\ \E c \in LoadOutcomes :
         /\ wfound' = [wfound EXCEPT ![w] = c]
         /\ IF c = "ok"
            THEN /\ wpc' = [wpc EXCEPT ![w] = "playing"]
                 /\ wloops' = [wloops EXCEPT ![w] = <<MixerLoops(wrep[w])>>]
                 /\ UNCHANGED <<wsig, wtry, wfd, wrep, wexit, wlog>>
            ELSE /\ WorkerExit(w, IF c = "empty" THEN "0" ELSE "1")
                 /\ wlog' = [wlog EXCEPT ![w] = IF c = "empty" THEN "" ELSE c]
                 /\ wloops' = wloops
    /\ UNCHANGED <<wplayed, lock, pidFile>>
    /\ UNCHANGED opVars
    /\ UNCHANGED envVars
    /\ UNCHANGED otherUnitVars
    /\ UNCHANGED histVars
\* run_player_daemon, lines 300-314, and play_music, lines 79-156. A failed
\* check prints its message (stdout and stderr are the log), calls
\* cleanup_pid() and sys.exit(1); an empty list calls cleanup_pid() and
\* returns, and the process ends with status 0; otherwise the music is
\* loaded and play(loops) called.
WorkerLoad(w) ==
    /\ wpc[w] = "loading"
    /\ ~wsig[w]
    /\ \E c \in LoadOutcomes :
         /\ wfound' = [wfound EXCEPT ![w] = c]
         /\ IF c = "ok"
            THEN /\ wpc' = [wpc EXCEPT ![w] = "playing"]
                 /\ wloops' = [wloops EXCEPT ![w] = <<MixerLoops(wrep[w])>>]
                 /\ UNCHANGED <<wsig, wtry, wfd, wrep, wexit, wlog, pidFile>>
            ELSE /\ CleanupPid
                 /\ WorkerExit(w, IF c = "empty" THEN "0" ELSE "1")
                 /\ wlog' = [wlog EXCEPT ![w] = IF c = "empty" THEN "" ELSE c]
                 /\ wloops' = wloops
    /\ UNCHANGED <<wplayed, lock>>
    /\ UNCHANGED opVars
    /\ UNCHANGED envVars
    /\ UNCHANGED otherUnitVars
    /\ UNCHANGED histVars

\* pygame.mixer.music: play(loops=n), n >= 0, plays the track n + 1 times;
\* here one of them comes to its end. With loops=-1 the track restarts
\* without end, which changes nothing that is followed.
WorkerTrackEnd(w) ==
    /\ wpc[w] = "playing"
    /\ ~wsig[w]
    /\ wloops[w] # <<-1>>
    /\ wplayed[w] < wloops[w][1] + 1
    /\ wplayed' = [wplayed EXCEPT ![w] = @ + 1]
    /\ UNCHANGED <<wfound, wlog, wloops, lock, pidFile>>
    /\ UNCHANGED wVars
    /\ UNCHANGED opVars
    /\ UNCHANGED envVars
    /\ UNCHANGED otherUnitVars
    /\ UNCHANGED histVars

\* play_music, line 160: get_busy() is false once the mixer has played the
\* track loops + 1 times; the finally block begins.
WorkerPlaybackEndN(w) ==
    /\ wpc[w] = "playing"
    /\ ~wsig[w]
    /\ wloops[w] # <<-1>>
    /\ wplayed[w] = wloops[w][1] + 1
    /\ wpc' = [wpc EXCEPT ![w] = "fin_read"]
    /\ UNCHANGED <<wsig, wtry, wfd, wrep, wexit, lock, pidFile>>
    /\ UNCHANGED opVars
    /\ UNCHANGED envVars
    /\ UNCHANGED unitVars
    /\ UNCHANGED histVars

InitCfg == nops = CfgOps /\ Start
NextCfg ==
    \/ \E o \in Ops : Invoke(o)
    \/ \E o \in Ops : StartAcquire(o)
    \/ \E o \in Ops : StartReadPid(o)
    \/ \E o \in Ops : StartTerminate(o)
    \/ \E o \in Ops : StartWaitPoll(o)
    \/ \E o \in Ops : StartForceKill(o)
    \/ \E o \in Ops : StartUnlink(o)
    \/ \E o \in Ops : StartSpawnN(o)
    \/ \E o \in Ops : StartFinish(o)
    \/ \E o \in Ops : StopAcquire(o)
    \/ \E o \in Ops : KepPgrep(o)
    \/ \E o \in Ops : KepReadPid(o)
    \/ \E o \in Ops : KepProbe(o)
    \/ \E o \in Ops : KepUnlinkStale(o)
    \/ \E o \in Ops : KepTerm(o)
    \/ \E o \in Ops : KepWaitPoll(o)
    \/ \E o \in Ops : KepForceKill(o)
    \/ \E o \in Ops : KepCleanup(o)
    \/ \E o \in Ops : StopFinish(o)
    \/ \E o \in Ops : ToggleReadPid(o)
    \/ \E o \in Ops : ToggleProbe(o)
    \/ \E o \in Ops : ToggleUnlinkStale(o)
    \/ \E o \in Ops : ToggleFinish(o)
    \/ \E w \in Pids : WorkerSetupLoggingIO(w)
    \/ \E w \in Pids : WorkerSavePidOpen(w)
    \/ \E w \in Pids : WorkerSavePidWrite(w)
    \/ \E w \in Pids : WorkerInstallHandlers(w)
    \/ \E w \in Pids : WorkerCrash(w)
    \/ \E w \in Pids : WorkerLoad(w)
    \/ \E w \in Pids : WorkerTrackEnd(w)
    \/ \E w \in Pids : WorkerPlaybackEndN(w)
    \/ \E w \in Pids : WorkerSignal(w)
    \/ \E w \in Pids : WorkerHandlerRead(w)
    \/ \E w \in Pids : WorkerHandlerCleanup(w)
    \/ \E w \in Pids : WorkerFinallyRead(w)
    \/ \E w \in Pids : WorkerFinallyCleanup(w)
SpecCfg == InitCfg /\ [][NextCfg]_vars

\* C24 (worker resource errors): a worker that finds the assets directory
\* or the asset file missing, or whose mixer fails to initialise, has
\* logged that error, has exited with a non-zero status and is not named by
\* the PID file; one that finds the file list empty has exited with status
\* 0 and is not named by the PID file.
C24_ResourceErrors ==
    [][\A w \in Pids :
          /\ (wfound'[w] # wfound[w]
                /\ wfound'[w] \in {"assets", "file", "audio"})
             => /\ wlog'[w] = wfound'[w]
                /\ wpc'[w] = "dead"
                /\ wexit'[w] \notin {"", "0"}
                /\ ~(pidFile'[1] # 0 /\ pidFile'[2] = w)
          /\ (wfound'[w] # wfound[w] /\ wfound'[w] = "empty")
             => /\ wpc'[w] = "dead"
                /\ wexit'[w] = "0"
                /\ ~(pidFile'[1] # 0 /\ pidFile'[2] = w)]_vars

\* One worker has ended on a resource error and one on an empty file list.
C24_Witness ==
    \E w \in Pids, v \in Pids :
        /\ wfound[w] \in {"assets", "file", "audio"}
        /\ wlog[w] = wfound[w]
        /\ wexit[w] = "1"
        /\ wfound[v] = "empty"
        /\ wexit[v] = "0"
        /\ ~FileExists

\* C25 (configuration errors reach the caller): a `play` invocation whose
\* configuration name or cue type cannot be resolved does not report "BGM
\* player started in background".
C25_ConfigErrorsReachCaller ==
    \A o \in Ops :
        (kind[o] = "play" /\ wfound[o] \in {"config", "cue"})
        => out[o] # "started"

\* C26 (repeat semantics): play is called with loops = -1 for repeat_count
\* 0 and loops = N - 1 for repeat_count N >= 1; a worker with repeat_count 0
\* leaves the playing state only through its signal handler or by being
\* killed; a worker with repeat_count N >= 1 never plays the track more
\* than N times and leaves the playing state on its own only after N plays.
C26_RepeatSemantics ==
    [][\A w \in Pids :
          /\ (wpc[w] = "loading" /\ wpc'[w] = "playing")
             => wloops'[w] = <<IF wrep[w] = 0 THEN -1 ELSE wrep[w] - 1>>
          /\ (wpc[w] = "playing" /\ wrep[w] = 0 /\ wpc'[w] # "playing")
             => \/ wpc'[w] = "h_read"
                \/ wpc'[w] = "dead" /\ wexit'[w] = "killed"
          /\ (wpc[w] = "playing" /\ wrep[w] >= 1)
             => /\ wplayed'[w] <= wrep[w]
                /\ wpc'[w] = "fin_read" => wplayed[w] = wrep[w]]_vars

\* A worker started with repeat_count 2 has played twice and is ending.
C26_Witness ==
    \E w \in Pids :
        /\ wpc[w] = "fin_read"
        /\ wrep[w] = 2
        /\ wloops[w] = <<1>>
        /\ wplayed[w] = 2

\* The steps of an invocation and of a worker in SpecCfg.
OpStepCfg(o) ==
    \/ StartReadPid(o) \/ StartTerminate(o) \/ StartWaitPoll(o)
    \/ StartForceKill(o) \/ StartUnlink(o) \/ StartSpawnN(o) \/ StartFinish(o)
    \/ KepPgrep(o) \/ KepReadPid(o) \/ KepProbe(o) \/ KepUnlinkStale(o)
    \/ KepTerm(o) \/ KepWaitPoll(o) \/ KepForceKill(o) \/ KepCleanup(o)
    \/ StopFinish(o) \/ ToggleReadPid(o) \/ ToggleProbe(o)
    \/ ToggleUnlinkStale(o) \/ ToggleFinish(o)
WorkerStepCfg(w) ==
    \/ WorkerSetupLoggingIO(w) \/ WorkerSavePidOpen(w)
    \/ WorkerSavePidWrite(w) \/ WorkerInstallHandlers(w) \/ WorkerCrash(w)
    \/ WorkerLoad(w) \/ WorkerTrackEnd(w) \/ WorkerPlaybackEndN(w)
    \/ WorkerSignal(w) \/ WorkerHandlerRead(w) \/ WorkerHandlerCleanup(w)
    \/ WorkerFinallyRead(w) \/ WorkerFinallyCleanup(w)

\* Fair scheduling of the invocations (as in Fairness) and of the workers: a
\* process that can run does run.
FairnessCfg ==
    /\ \A o \in Ops :
         /\ WF_vars(OpStepCfg(o))
         /\ SF_vars(StartAcquire(o))
         /\ SF_vars(StopAcquire(o))
    /\ \A w \in Pids : WF_vars(WorkerStepCfg(w))

LiveCfg == InitCfg /\ [][NextCfg]_vars /\ FairnessCfg

\* No command other than o has been invoked.
NoOtherRequest(o) == \A j \in Ops \ {o} : pc[j] = "idle"

\* C27 (start leads to Playing): once start_background_player has spawned
\* its worker, eventually the PID file names that worker and the worker is
\* alive, unless another command is invoked; and a worker with repeat_count
\* 0 that is playing stays playing and named by the PID file for as long as
\* no other command is invoked.
C27_StartLeadsToPlaying ==
    /\ \A o \in Ops :
          (wpc[o] = "boot" /\ NoOtherRequest(o))
          ~> (\/ FileExists /\ FileVal = o /\ Alive(o)
              \/ ~NoOtherRequest(o))
    /\ [][\A o \in Ops :
            (wpc[o] = "playing" /\ wrep[o] = 0 /\ NoOtherRequest(o)')
            => (wpc'[o] = "playing" /\ pidFile'[1] # 0
                  /\ pidFile'[2] = o)]_vars

\* ----------------------------------------------- toggle, concurrent starts
\* The invocation began after every earlier one had returned, and no other
\* one is running.
Solo(o) == seqd[o] /\ \A j \in Ops \ {o} : pc[j] \in {"idle", "done"}

\* C28 (toggle decision): toggle takes the start branch when there is no
\* PID file or the process it names is dead, and the stop branch when the
\* process is alive. On the stop branch it spawns no worker, and (when it
\* runs alone and only one worker was ever spawned, which is then the
\* process the file named) that worker is not alive when
\* kill_existing_player has returned. On the start branch it spawns exactly
\* one worker, with repeat_count 0.
C28_ToggleDecision ==
    [][\A o \in Ops :
          (kind[o] = "toggle" /\ pc'[o] # pc[o])
          => /\ (pc[o] = "t_read" /\ ~FileExists) => pc'[o] = "s_lock"
             /\ pc[o] = "t_probe"
                => pc'[o] = IF Alive(tgt[o]) THEN "k_pgrep" ELSE "t_stale"
             /\ pc[o] = "t_stale" => pc'[o] = "s_lock"
             /\ pc'[o] = "t_report"
                => /\ wpc'[o] = "unborn"
                   /\ Solo(o)
                      => \A w \in Pids :
                            {v \in Pids : wpc'[v] # "unborn"} = {w}
                            => wpc'[w] = "dead"
             /\ pc[o] = "s_spawn"
                => /\ {v \in Pids : wpc'[v] # wpc[v]} = {o}
                   /\ wpc'[o] = "boot"
                   /\ wrep'[o] = 0]_vars

\* C29 (total order of concurrent starts): on Unix, when a
\* start_background_player call that was invoked while an earlier one was
\* running has finished kill_existing_process and is about to spawn, the
\* worker spawned by a call that held the lock before it is not alive.
C29_ConcurrentStartOrder ==
    \A a \in Ops, b \in Ops :
        (/\ platform = "unix"
         /\ a # b
         /\ Started(a) /\ pc[a] = "done"
         /\ ~seqd[b] /\ pc[b] = "s_spawn" /\ lock = b)
        => ~Alive(a)

\* C30 (start clears the old identity regardless of outcome): when
\* kill_existing_process returns, which is the moment before the Popen of
\* the new worker, the PID file does not exist, whatever it held.
C30_StartClearsIdentity ==
    [][\A o \in Ops :
          (pc[o] \in {"s_read", "s_unlink"} /\ pc'[o] = "s_spawn")
          => pidFile' = NoFile]_vars

\* ------------------------------------------------ frame of stop, lock guard
\* C31 (stop clears only what it terminated): a step of a stop invocation
\* changes the PID file only by removing it, and a file that names a process
\* is removed only when that process is not alive.
C31_StopClearsOnlyTerminated ==
    [][\A o \in Ops :
          (kind[o] = "stop" /\ pc'[o] # pc[o] /\ pidFile' # pidFile)
          => /\ pidFile' = NoFile
             /\ FileVal # 0 => ~Alive(FileVal)]_vars

\* The positions of a command at which its next step reads or changes the
\* PID file, probes a process (os.kill(pid, 0), pgrep) or signals one.
AccessPcs ==
    {"s_read", "s_term", "s_wait", "s_force", "s_unlink", "s_report",
     "k_pgrep", "k_read", "k_probe", "k_stale", "k_term", "k_wait", "k_force",
     "k_cleanup"}

\* C32 (supervisor accesses are lock-guarded): every step of a `play` or
\* `stop` invocation that reads, writes or deletes the PID file, or probes
\* or signals a process, is taken while that invocation holds the lock.
C32_LockGuardedAccess ==
    [][\A o \in Ops :
          (/\ kind[o] \in {"play", "stop"}
           /\ pc[o] \in AccessPcs
           /\ <<pc[o], polls[o]>>' # <<pc[o], polls[o]>>)
          => lock = o]_vars

\* The step is one of worker w's save_pid (the open or the write).
SavePidStep(w) == wpc[w] \in {"start", "saving"} /\ wpc'[w] # wpc[w]

\* C33 (only registration happens outside the lock): on Unix every step
\* that changes the PID file is a step of a worker's save_pid or a step of a
\* command that holds the lock; and while a worker executes save_pid no
\* other worker is inside save_pid.
C33_OnlyRegistrationUnlocked ==
    [][platform = "unix" =>
        /\ pidFile' # pidFile
           => \/ \E w \in Pids : SavePidStep(w)
              \/ \E o \in Ops : pc'[o] # pc[o] /\ lock = o
        /\ \A w \in Pids :
             SavePidStep(w) => \A v \in Pids \ {w} : wpc[v] # "saving"]_vars

\* ------------------------------------------------------ escalation order
\* C34 (termination escalation order): kill_process delivers SIGKILL only
\* in a graceful call, after SIGTERM, and after the process was found alive
\* at every poll of the wait loop; a graceful call polls after its SIGTERM,
\* and returns without SIGKILL when a poll finds the process gone; a call
\* with graceful=False never delivers SIGKILL.
C34_EscalationOrder ==
    [][/\ ("SIGKILL" \in ksigs' /\ "SIGKILL" \notin ksigs)
          => /\ kgrace
             /\ "SIGTERM" \in ksigs
             /\ kpolls = MaxPolls
       /\ (kpc = "term" /\ kgrace /\ "SIGTERM" \in ksigs') => kpc' = "wait"
       /\ (kpc = "wait" /\ kpc' = "esc") => kpolls' = MaxPolls
       /\ (kpc = "wait" /\ kpc' = "ret")
          => (kproc = "dead" /\ "SIGKILL" \notin ksigs' /\ kret' = "true")
       /\ ~kgrace => "SIGKILL" \notin ksigs']_vars

\* A graceful call on Unix has delivered SIGTERM, polled to the timeout and
\* delivered SIGKILL.
C34_Witness ==
    /\ platform = "unix"
    /\ kpc = "final"
    /\ kgrace
    /\ kpolls = MaxPolls
    /\ ksigs = {"SIGTERM", "SIGKILL"}

\* ------------------------------------------------- start-up of one worker
\* run_player_daemon statement by statement, with the log file line by
\* line. The workers run one after the other; the pid of the one that is
\* starting is rworkers.
bootFrame == <<opVars, wVars, envVars, histVars, lock, detVars>>
BootFixed == <<lm_max_lines, lm_keep_lines, lfCond, lfExists, lfOrig,
               tmpExists, tmpLines, rwarn, rworkers, rcalls>>

\* The worker prints n lines: they are appended to the log.
BootPrint(n) ==
    /\ lfLines' = lfLines \o [i \in 1..n |-> Line(lfNext + i - 1)]
    /\ lfNext' = lfNext + n

\* play.py 269-271: the DEBUG line with the parameters.
BootDebugLine ==
    /\ rpc = "attached"
    /\ BootPrint(1)
    /\ rpc' = "debugged"
    /\ UNCHANGED <<BootFixed, pidFile>>
    /\ UNCHANGED <<killVars, existsVars, lockObjVars, logVars>>
    /\ UNCHANGED bootFrame

\* play.py 274-275: save_pid() writes os.getpid() to the PID file.
BootSavePid ==
    /\ rpc = "debugged"
    /\ pidFile' = <<IF FileExists THEN pidFile[1] ELSE rworkers, rworkers>>
    /\ rpc' = "saved"
    /\ UNCHANGED <<BootFixed, lfLines, lfNext>>
    /\ UNCHANGED <<killVars, existsVars, lockObjVars, logVars>>
    /\ UNCHANGED bootFrame

\* play.py 276: "BGM player daemon started (PID: ...)".
BootStartedLine ==
    /\ rpc = "saved"
    /\ BootPrint(1)
    /\ rpc' = "started"
    /\ UNCHANGED <<BootFixed, pidFile>>
    /\ UNCHANGED <<killVars, existsVars, lockObjVars, logVars>>
    /\ UNCHANGED bootFrame

\* play.py 298-314 and 75-156: the handlers are installed, the checks pass,
\* play_music prints its three lines (75, 128, 149/154) and calls
\* pygame.mixer.music.play.
BootPlay ==
    /\ rpc = "started"
    /\ BootPrint(3)
    /\ rpc' = "playing"
    /\ UNCHANGED <<BootFixed, pidFile>>
    /\ UNCHANGED <<killVars, existsVars, lockObjVars, logVars>>
    /\ UNCHANGED bootFrame

\* The worker ends: through the finally block of play_music, which removes
\* the PID file that names it (play.py 184-191), or by SIGKILL, or at the
\* os.open of logger.py:105; in the last two cases the PID file stays.
BootEnd ==
    /\ rpc \in {"playing", "crashed"}
    /\ \E sigkill \in BOOLEAN :
         pidFile' = IF rpc = "playing" /\ ~sigkill THEN NoFile ELSE pidFile
    /\ rpc' = "idle"
    /\ lm_max_lines' = 0
    /\ lm_keep_lines' = 0
    /\ lfCond' = "ok"
    /\ lfOrig' = <<FALSE, <<>>, FALSE, <<>> >>
    /\ rwarn' = FALSE
    /\ rcalls' = 0
    /\ UNCHANGED <<lfExists, lfLines, lfNext, tmpExists, tmpLines, rworkers>>
    /\ UNCHANGED <<killVars, existsVars, lockObjVars, logVars>>
    /\ UNCHANGED bootFrame

NextBoot ==
    \/ RotCall
    \/ RotCount
    \/ RotRead
    \/ RotWrite
    \/ RotReplace
    \/ RotAttach
    \/ BootDebugLine
    \/ BootSavePid
    \/ BootStartedLine
    \/ BootPlay
    \/ BootEnd
SpecBoot == InitLog /\ [][NextBoot]_vars

\* The positions of a worker inside rotate_if_needed, and those after its
\* output was attached to the log.
RotPcs == {"count", "read", "write", "replace"}
AttachedPcs == {"attached", "debugged", "saved", "started", "playing"}

\* C35 (worker start-up ordering): rotation is not entered again once the
\* output is attached; a worker appends a line to the log only when its
\* output is attached and the PID file holds its own pid; playback starts
\* only with the output attached and the PID file holding the worker's pid.
C35_StartupOrdering ==
    [][/\ rpc \in AttachedPcs => rpc' \notin RotPcs
       /\ (rpc \notin RotPcs /\ rpc # "idle" /\ lfLines' # lfLines)
          => (rpc \in AttachedPcs /\ FileExists /\ FileVal = rworkers)
       /\ (rpc' = "playing" /\ rpc # "playing")
          => (rpc \in AttachedPcs /\ FileExists /\ FileVal = rworkers)]_vars

\* ------------------------------------------------------ natural completion
\* C36 (natural completion returns to Idle): when the playback of a worker
\* with a finite repeat count has ended on its own, the PID file names that
\* worker; the worker then removes the PID file and exits, so that
\* eventually no worker is alive and no PID file exists, unless another
\* command is invoked.
C36_NaturalCompletion ==
    /\ [](\A o \in Ops :
            (wpc[o] = "fin_read" /\ NoOtherRequest(o))
            => (wrep[o] >= 1 /\ FileExists /\ FileVal = o))
    /\ \A o \in Ops :
          (wpc[o] = "fin_read" /\ NoOtherRequest(o))
          ~> (\/ AliveWorkers = {} /\ ~FileExists /\ wexit[o] = "0"
              \/ ~NoOtherRequest(o))

\* A worker that played its track to the end has exited with status 0, no
\* PID file is left and no other command was invoked.
C36_Witness ==
    \E o \in Ops :
        /\ NoOtherRequest(o)
        /\ wfound[o] = "ok"
        /\ wplayed[o] >= 1
        /\ wpc[o] = "dead"
        /\ wexit[o] = "0"
        /\ ~FileExists

\* ------------------------------------------- rotation: failure, repetition
\* C37 (a failed rotation leaves the log intact): while rotate_if_needed
\* has not completed its replace, and when it has returned after an I/O
\* failure at any of its steps, the log file exists with exactly the lines
\* it had when the call began.
C37_FailedRotationIntact ==
    (rpc \in RotPcs \/ (rpc = "ret" /\ rwarn))
    => (lfExists = lfOrig[1] /\ lfLines = lfOrig[2])

\* rotate_if_needed has returned after its replace was refused: the temp
\* file is there, the over-long log is as it was.
C37_Witness ==
    /\ rpc = "ret"
    /\ rwarn
    /\ lfCond = "noreplace"
    /\ tmpExists
    /\ Len(lfOrig[2]) > lm_max_lines
    /\ lfLines = lfOrig[2]

\* rotate_if_needed is called once more on the same LogManager, straight
\* after it returned: same max_lines and keep_lines, same condition of the
\* log path, no line printed in between.
RotAgain ==
    /\ rpc = "ret"
    /\ rcalls = 1
    /\ rcalls' = 2
    /\ lfOrig' = <<lfExists, lfLines, tmpExists, tmpLines>>
    /\ rwarn' = FALSE
    /\ rpc' = IF lfExists THEN "count" ELSE "ret"
    /\ UNCHANGED <<lm_max_lines, lm_keep_lines, lfCond, lfExists, lfLines,
                   lfNext, tmpExists, tmpLines, rworkers>>
    /\ UNCHANGED <<killVars, existsVars, lockObjVars, logVars>>
    /\ UNCHANGED progVars

NextTwice == NextLog \/ RotAgain
SpecTwice == InitLog /\ [][NextTwice]_vars

\* C38 (rotation is idempotent): with 1 <= keep_lines < max_lines, a second
\* rotate_if_needed call made straight after the first leaves the log file
\* with the content the first call left.
C38_RotationIdempotent ==
    (/\ rcalls = 2
     /\ rpc = "ret"
     /\ 1 <= lm_keep_lines
     /\ lm_keep_lines < lm_max_lines)
    => (lfExists = lfOrig[1] /\ lfLines = lfOrig[2])

\* The first call rotated the file, the second one has returned.
C38_Witness ==
    /\ rcalls = 2
    /\ rpc = "ret"
    /\ ~rwarn
    /\ 1 <= lm_keep_lines
    /\ lm_keep_lines < lm_max_lines
    /\ Len(lfLines) = lm_keep_lines + 1
    /\ lfLines[1] = Marker(lm_keep_lines)

\* ------------------------------------------------------------ bgm disabled
\* What the selection file holds when the enable state is read: no file, a
\* file that is not JSON, JSON without the "enable" key, or the key set.
SelectionStates == {"absent", "invalid", "nokey", "true", "false"}
\* is_bgm_enabled(): enabled unless the file sets "enable" to false.
is_bgm_enabled(sel) == sel # "false"

\* Variant: a disabled play clears the PID file before it returns.
PlayDisabledClears(o) ==
    /\ pc[o] = "idle"
    /\ o <= nops
    /\ \A j \in Ops : j < o => pc[j] # "idle"
    /\ \E sel \in SelectionStates : ~is_bgm_enabled(sel)
    /\ kind' = [kind EXCEPT ![o] = "play"]
    /\ out' = [out EXCEPT ![o] = "disabled"]
    /\ pc' = [pc EXCEPT ![o] = "done"]
    /\ seqd' = [seqd EXCEPT ![o] = \A j \in Ops : j < o => pc[j] = "done"]
    /\ pidFile' = NoFile
    /\ UNCHANGED <<tgt, killed, polls, sent, entryPid, entryLive, lock,
                   during>>
    /\ UNCHANGED wVars
    /\ UNCHANGED envVars
    /\ UNCHANGED unitVars
\* play(), lines 329-332, foreground form: `bgm play TYPE [LOOP]` while
\* disabled prints "AI BGM is disabled" and returns.
PlayDisabled(o) ==
    /\ pc[o] = "idle"
    /\ o <= nops
    /\ \A j \in Ops : j < o => pc[j] # "idle"
    /\ \E sel \in SelectionStates : ~is_bgm_enabled(sel)
    /\ kind' = [kind EXCEPT ![o] = "play"]
    /\ out' = [out EXCEPT ![o] = "disabled"]
    /\ pc' = [pc EXCEPT ![o] = "done"]
    /\ seqd' = [seqd EXCEPT ![o] = \A j \in Ops : j < o => pc[j] = "done"]
    /\ UNCHANGED <<tgt, killed, polls, sent, entryPid, entryLive, lock,
                   pidFile, during>>
    /\ UNCHANGED wVars
    /\ UNCHANGED envVars
    /\ UNCHANGED unitVars

\* play(), lines 329-332, --daemon form: the spawned process finds BGM
\* disabled (the state is read anew in that process) and returns before
\* run_player_daemon; the process ends with status 0.
DaemonDisabled(w) ==
    /\ wpc[w] = "boot"
    /\ \E sel \in SelectionStates : ~is_bgm_enabled(sel)
    /\ WorkerExit(w, "0")
    /\ wfound' = [wfound EXCEPT ![w] = "disabled"]
    /\ UNCHANGED <<wlog, wloops, wplayed, lock, pidFile>>
    /\ UNCHANGED opVars
    /\ UNCHANGED envVars
    /\ UNCHANGED otherUnitVars
    /\ UNCHANGED histVars

NextEnable ==
    \/ Next
    \/ \E o \in Ops : PlayDisabled(o)
    \/ \E w \in Pids : DaemonDisabled(w)
SpecEnable == Init /\ [][NextEnable]_vars

\* C39 (disabled means no lifecycle effect): the step of a `play` command
\* that finds BGM disabled is its only step; it takes no lock, leaves the
\* PID file as it is, signals and spawns nothing. The step of a --daemon
\* process that finds BGM disabled ends that process and leaves the lock,
\* the PID file, every other worker and every command as they are.
C39_DisabledNoEffect ==
    [][/\ \A o \in Ops :
            (out'[o] = "disabled" /\ out[o] # "disabled")
            => /\ pc[o] = "idle" /\ pc'[o] = "done"
               /\ lock' = lock
               /\ pidFile' = pidFile
               /\ sent' = sent
               /\ wpc' = wpc
               /\ wsig' = wsig
       /\ \A w \in Pids :
            (wfound'[w] = "disabled" /\ wfound[w] # "disabled")
            => /\ wpc'[w] = "dead"
               /\ \A v \in Pids \ {w} : wpc'[v] = wpc[v]
               /\ lock' = lock
               /\ pidFile' = pidFile
               /\ wsig' = wsig
               /\ sent' = sent
               /\ pc' = pc]_vars

\* A play command has found BGM disabled and returned while a registered
\* worker is playing.
C39_Witness ==
    \E o \in Ops, w \in Pids :
        /\ out[o] = "disabled"
        /\ pc[o] = "done"
        /\ wpc[w] = "playing"
        /\ FileExists
        /\ FileVal = w

====
